---- MODULE Spec2Model ----
(***************************************************************************)
(* A model of the chat/catalog backend: the chat HTTP API layer            *)
(* (chatapi/views.py, chatapi/models.py), the linear SQL-answering engine  *)
(* (chatapi/services/llm_langgraph.py), the cache wrapper                  *)
(* (chatapi/services/redis_service.py) and the catalog seeding command     *)
(* (products/management/commands/seed_products.py).                        *)
(*                                                                         *)
(* Text is modelled as a sequence of one-character strings, so that        *)
(* slicing, concatenation and joining are computed as the code computes    *)
(* them.  A Python dict is a function whose domain is its set of keys; the *)
(* empty dict is << >>.                                                    *)
(***************************************************************************)
EXTENDS Integers, Sequences, FiniteSets, TLC

VARIABLES
    sessions,   \* ChatSession table: session id -> [user, title]
    nextSid,    \* number of session identifiers handed out so far (uuid4 is fresh)
    messages,   \* ChatMessage table in created_at order
    nextMid,    \* number of message primary keys handed out so far
    reqs,       \* the process-message requests: request -> its local state
    resp,       \* the response of the last completed CRUD request
    eng,        \* one run of SQLQuerySystem.query
    fmt,        \* one evaluation of _format_message_with_history
    redis,      \* the Redis list chat:<id>:messages and its caller
    catalog,    \* Category, Brand and Product tables
    seed,       \* the seed_products command
    admin,      \* one product changelist request of the admin site
    config,     \* the settings registry and the engines built from it
    agent,      \* one run of the tool-calling agent
    processed   \* one ProcessedMessages object

vars == <<sessions, nextSid, messages, nextMid, reqs, resp, eng, fmt, redis, catalog, seed,
          admin, config, agent, processed>>
chatVars == <<sessions, nextSid, messages, nextMid, reqs, resp>>

\* ------------------------------------------------------------------ text

Empty == << >>
NL == <<"\n">>
Ellipsis == <<".",".",".">>

Max(a, b) == IF a > b THEN a ELSE b
Min(a, b) == IF a < b THEN a ELSE b

\* s[:n] of Python for n >= 0
Take(s, n) == SubSeq(s, 1, Min(n, Len(s)))
\* s[-n:] of Python for n > 0
Last(s, n) == SubSeq(s, Max(1, Len(s) - n + 1), Len(s))

RECURSIVE Join(_, _)
\* sep.join(parts)
Join(sep, parts) ==
    IF parts = << >> THEN << >>
    ELSE IF Len(parts) = 1 THEN parts[1]
    ELSE parts[1] \o sep \o Join(sep, Tail(parts))

\* dict.get(key, default)
DictGet(d, k, default) == IF k \in DOMAIN d THEN d[k] ELSE default

\* {**state, **update}
Merge(state, update) ==
    [k \in DOMAIN state \cup DOMAIN update |->
        IF k \in DOMAIN update THEN update[k] ELSE state[k]]

\* A text of n characters whose characters cycle through "a".."e"
Alphabet == <<"a", "b", "c", "d", "e">>
TextOfLen(n) == [i \in 1..n |-> Alphabet[((i - 1) % Len(Alphabet)) + 1]]

\* ------------------------------------------------ linear SQL-answering engine
\* chatapi/services/llm_langgraph.py

FALLBACK_QUERY == <<"S","E","L","E","C","T"," ","1",";">>
EXECUTE_ERROR_PREFIX == <<"E","r","r","o","r"," ","e","x","e","c","u","t","i","n","g"," ","q","u","e","r","y",":"," ">>
ANSWER_APOLOGY == <<"I"," ","a","p","o","l","o","g","i","z","e",","," ","b","u","t"," ","I"," ","e","n","c","o","u","n","t","e","r","e","d"," ","a","n"," ","e","r","r","o","r"," ","w","h","i","l","e"," ","g","e","n","e","r","a","t","i","n","g"," ","t","h","e"," ","a","n","s","w","e","r",".">>

StateKeys == {"question", "query", "sql_result", "answer"}

\* What the language model and the database can do in one stage.  A structured
\* output without the "query" field is the malformed output of write_query.
SqlA == <<"S","E","L","E","C","T"," ","n","a","m","e"," ","F","R","O","M"," ","p","r","o","d","u","c","t","s","_","p","r","o","d","u","c","t"," ","L","I","M","I","T"," ","1","0",";">>
SqlB == <<"S","E","L","E","C","T"," ","C","O","U","N","T","(","*",")"," ","F","R","O","M"," ","p","r","o","d","u","c","t","s","_","b","r","a","n","d",";">>
\* The structured output is whatever text the model writes: nothing in
\* write_query looks at the statement, so it may be one that changes rows.
SqlDeleteProducts == <<"D","E","L","E","T","E"," ","F","R","O","M"," ","p","r","o","d","u","c","t","s","_","p","r","o","d","u","c","t",";">>
SqlDeleteMessages == <<"D","E","L","E","T","E"," ","F","R","O","M"," ","c","h","a","t","a","p","i","_","c","h","a","t","m","e","s","s","a","g","e",";">>
SqlWrites == {SqlDeleteProducts, SqlDeleteMessages}
WqOutcomes ==
    { [raises |-> TRUE,  out |-> << >>],
      [raises |-> FALSE, out |-> << >>],
      [raises |-> FALSE, out |-> [query |-> SqlA]],
      [raises |-> FALSE, out |-> [query |-> SqlB]],
      [raises |-> FALSE, out |-> [query |-> SqlDeleteProducts]],
      [raises |-> FALSE, out |-> [query |-> SqlDeleteMessages]] }
\* The tool raises, or returns the rows as text; an SQL error is returned by
\* the tool as a text of its own and is not raised.
EqOutcomes ==
    { [raises |-> TRUE,  err |-> <<"n","o"," ","s","u","c","h"," ","t","a","b","l","e",":"," ","p","r","o","d","u","c","t","s">>, out |-> Empty],
      [raises |-> FALSE, err |-> Empty, out |-> <<"E","r","r","o","r",":"," ","n","o"," ","s","u","c","h"," ","c","o","l","u","m","n",":"," ","c","o","s","t">>],
      [raises |-> FALSE, err |-> Empty, out |-> <<"[","(","'","i","P","h","o","n","e"," ","1","5"," ","P","r","o","'",",",")","]">>],
      [raises |-> FALSE, err |-> Empty, out |-> Empty] }
GaOutcomes ==
    { [raises |-> TRUE,  content |-> Empty],
      [raises |-> FALSE, content |-> <<"W","e"," ","h","a","v","e"," ","t","h","e"," ","i","P","h","o","n","e"," ","1","5"," ","P","r","o",".">>],
      [raises |-> FALSE, content |-> <<"N","o"," ","r","e","l","e","v","a","n","t"," ","i","n","f","o","r","m","a","t","i","o","n"," ","w","a","s"," ","f","o","u","n","d",".">>] }
EngineRuns == [wq : WqOutcomes, eq : EqOutcomes, ga : GaOutcomes]

\* A stage returns [raised, update]: the update it hands to the graph, or the
\* exception it lets through.
WriteQueryUnguarded(state, llm) ==
    IF llm.raises \/ "query" \notin DOMAIN llm.out
    THEN [raised |-> TRUE,  update |-> << >>]
    ELSE [raised |-> FALSE, update |-> [query |-> llm.out.query]]
write_query(state, llm) ==
    IF llm.raises \/ "query" \notin DOMAIN llm.out
    THEN [raised |-> FALSE, update |-> [query |-> FALLBACK_QUERY]]
    ELSE [raised |-> FALSE, update |-> [query |-> llm.out.query]]

ExecuteQueryUnguarded(state, db) ==
    IF db.raises
    THEN [raised |-> TRUE,  update |-> << >>]
    ELSE [raised |-> FALSE, update |-> [sql_result |-> db.out]]
execute_query(state, db) ==
    IF db.raises
    THEN [raised |-> FALSE, update |-> [sql_result |-> EXECUTE_ERROR_PREFIX \o db.err]]
    ELSE [raised |-> FALSE, update |-> [sql_result |-> db.out]]

\* self.query_tool.invoke(query) on the store: QuerySQLDatabaseTool runs the
\* text on the connection of SQLDatabase.from_uri("sqlite:///./db.sqlite3"),
\* the database file of the Django tables, and the statement is committed.
\* A store is [messages, catalog]; a statement that failed changes nothing.
RunStatement(query, db, store) ==
    IF db.raises THEN store
    ELSE IF query = SqlDeleteProducts
    THEN [store EXCEPT !.catalog = [store.catalog EXCEPT !.products = {}]]
    ELSE IF query = SqlDeleteMessages
    THEN [store EXCEPT !.messages = << >>]
    ELSE store
\* a statement that returns no rows has the empty text as its result
StatementResult(query, db) ==
    IF ~db.raises /\ query \in SqlWrites THEN [db EXCEPT !.out = Empty] ELSE db

generate_answer(state, llm) ==
    IF llm.raises
    THEN [raised |-> FALSE, update |-> [answer |-> ANSWER_APOLOGY]]
    ELSE [raised |-> FALSE, update |-> [answer |-> llm.content]]

\* The compiled graph: START -> write_query -> execute_query -> generate_answer
GraphNodes == <<"write_query", "execute_query", "generate_answer">>
NextNode(node) ==
    IF node = "write_query" THEN "execute_query"
    ELSE IF node = "execute_query" THEN "generate_answer"
    ELSE "return"

RunNode(node, state, o) ==
    IF node = "write_query" THEN write_query(state, o.wq)
    ELSE IF node = "execute_query" THEN execute_query(state, o.eq)
    ELSE generate_answer(state, o.ga)

\* graph.invoke(initial_state): the state after the three nodes, or the first
\* exception a node lets through.
RECURSIVE GraphInvoke(_, _, _)
GraphInvoke(node, state, o) ==
    IF node = "return" THEN [raised |-> FALSE, value |-> state]
    ELSE LET r == RunNode(node, state, o)
         IN  IF r.raised THEN [raised |-> TRUE, value |-> << >>]
             ELSE GraphInvoke(NextNode(node), Merge(state, r.update), o)

\* The last item of graph.stream(initial_state, stream_mode="updates"):
\* {node name: that node's update}.
RECURSIVE GraphStreamLast(_, _, _, _)
GraphStreamLast(node, state, o, last) ==
    IF node = "return" THEN [raised |-> FALSE, value |-> last]
    ELSE LET r == RunNode(node, state, o)
         IN  IF r.raised THEN [raised |-> TRUE, value |-> << >>]
             ELSE GraphStreamLast(NextNode(node), Merge(state, r.update), o,
                                  (node :> r.update))

\* SQLQuerySystem.query(question, stream)
Query(question, stream, o) ==
    LET initial_state == [question |-> question]
    IN  IF stream THEN GraphStreamLast("write_query", initial_state, o, << >>)
        ELSE GraphInvoke("write_query", initial_state, o)

\* ---- the engine run step by step (specification SpecEngine)

Questions == { <<"c","h","e","a","p","e","s","t"," ","p","h","o","n","e","?">>, <<"h","o","w"," ","m","a","n","y"," ","b","r","a","n","d","s","?">> }

EngIdle ==
    [pc |-> "idle", stream |-> FALSE, state |-> << >>, last |-> << >>,
     log |-> << >>, raised |-> FALSE, result |-> << >>, ran |-> << >>]

\* query(): initial_state = {"question": question}
EngQuery(question, stream) ==
    /\ eng.pc \in {"idle", "done"}
    /\ eng' = [EngIdle EXCEPT !.pc = "write_query", !.stream = stream,
                              !.state = [question |-> question]]
    /\ UNCHANGED <<chatVars, fmt, redis, catalog, seed, admin, config, agent, processed>>

\* one node of the graph runs; its update is merged into the state and, when
\* streaming, becomes the latest streamed item
EngAdvance(node, r) ==
    IF r.raised
    THEN eng' = [eng EXCEPT !.pc = "done", !.raised = TRUE]
    ELSE eng' = [eng EXCEPT !.pc = NextNode(node),
                            !.state = Merge(eng.state, r.update),
                            !.last = (node :> r.update),
                            !.log = Append(eng.log, node)]
EngStep(node, r) ==
    /\ eng.pc = node
    /\ EngAdvance(node, r)
    /\ UNCHANGED <<chatVars, fmt, redis, catalog, seed, admin, config, agent, processed>>

EngWriteQuery == \E llm \in WqOutcomes : EngStep("write_query", write_query(eng.state, llm))
\* the execute_query node: the statement runs on the store, then its result
\* or its error becomes the update
EngExecuteQueryOn(db) ==
    /\ eng.pc = "execute_query"
    /\ LET query == eng.state.query
           store == RunStatement(query, db, [messages |-> messages, catalog |-> catalog])
           r == execute_query(eng.state, StatementResult(query, db))
       IN  /\ IF r.raised
              THEN eng' = [eng EXCEPT !.pc = "done", !.raised = TRUE, !.ran = Append(@, query)]
              ELSE eng' = [eng EXCEPT !.pc = NextNode("execute_query"),
                                      !.state = Merge(eng.state, r.update),
                                      !.last = ("execute_query" :> r.update),
                                      !.log = Append(eng.log, "execute_query"),
                                      !.ran = Append(@, query)]
           /\ messages' = store.messages
           /\ catalog' = store.catalog
    /\ UNCHANGED <<sessions, nextSid, nextMid, reqs, resp, fmt, redis, seed, admin, config, agent, processed>>
EngExecuteQuery == \E db \in EqOutcomes : EngExecuteQueryOn(db)
EngGenerateAnswer == \E llm \in GaOutcomes : EngStep("generate_answer", generate_answer(eng.state, llm))

\* return final_state (stream) / return self.graph.invoke(initial_state)
EngReturn ==
    /\ eng.pc = "return"
    /\ eng' = [eng EXCEPT !.pc = "done",
                          !.result = IF eng.stream THEN eng.last ELSE eng.state]
    /\ UNCHANGED <<chatVars, fmt, redis, catalog, seed, admin, config, agent, processed>>

NextEngine ==
    \/ \E q \in Questions, s \in BOOLEAN : EngQuery(q, s)
    \/ EngWriteQuery
    \/ EngExecuteQuery
    \/ EngGenerateAnswer
    \/ EngReturn

\* ------------------------------------------------------- chat HTTP API layer
\* chatapi/views.py, chatapi/models.py

TITLE_MAX == 50
HISTORY_WINDOW == 20

MaxSessions == 1
MaxMsgs == 4

Users == {"alice", "bob"}
Reqs == {1, 2}
ApiReqs == {1}
NoSid == 0
Sids == 1..MaxSessions

\* request texts on both sides of the title limit, and the other texts clients send
Msg50 == TextOfLen(TITLE_MAX)
Msg51 == TextOfLen(TITLE_MAX + 1)
ProcessTexts == {Msg50, Msg51}
AddTexts == { <<"h","i">> }

\* request.user when no credentials are presented
Anonymous == "AnonymousUser"
Clients == Users \cup {Anonymous}

\* a chat_id that is no UUID is a negative number; null is NoSid
NotUuid == 0 - 1
IsUuid(x) == x >= 0

\* request bodies: a dict of the fields sent
ValidProcessBodies(texts) ==
    {[message |-> m] : m \in texts}
    \cup {[message |-> m, chat_id |-> c] : m \in texts, c \in {NoSid} \cup Sids}
InvalidProcessBodies ==
    { << >>, [message |-> Empty], [message |-> Msg50, chat_id |-> NotUuid] }
ProcessBodies == ValidProcessBodies(ProcessTexts) \cup InvalidProcessBodies
ValidAddBodies == {[content |-> c] : c \in AddTexts}
AddBodies == ValidAddBodies \cup { << >> }
Titles == { Empty, <<"P","l","a","n","s">> }

PROCESS_ERROR_RESULT == <<"E","r","r","o","r"," ","p","r","o","c","e","s","s","i","n","g"," ","q","u","e","r","y">>
PROCESS_APOLOGY == <<"I"," ","a","p","o","l","o","g","i","z","e",","," ","b","u","t"," ","I"," ","e","n","c","o","u","n","t","e","r","e","d"," ","a","n"," ","e","r","r","o","r"," ","w","h","i","l","e"," ","p","r","o","c","e","s","s","i","n","g"," ","y","o","u","r"," ","r","e","q","u","e","s","t",".">>
NO_RESPONSE == <<"N","o"," ","r","e","s","p","o","n","s","e"," ","g","e","n","e","r","a","t","e","d">>
HEADER == <<"P","r","e","v","i","o","u","s"," ","c","o","n","v","e","r","s","a","t","i","o","n"," ","c","o","n","t","e","x","t",":">>
CURRENT == <<"C","u","r","r","e","n","t"," ","q","u","e","s","t","i","o","n",":">>
HUMAN == <<"H","u","m","a","n">>
ASSISTANT == <<"A","s","s","i","s","t","a","n","t">>
COLON == <<":"," ">>

\* what the engine call of one request can do: the call itself raising, or the
\* three stages' outcomes
OkRun ==
    [wq |-> [raises |-> FALSE, out |-> [query |-> SqlA]],
     eq |-> [raises |-> FALSE, err |-> Empty, out |-> <<"[","(","'","i","P","h","o","n","e"," ","1","5"," ","P","r","o","'",",",")","]">>],
     ga |-> [raises |-> FALSE, content |-> <<"W","e"," ","h","a","v","e"," ","t","h","e"," ","i","P","h","o","n","e"," ","1","5"," ","P","r","o",".">>]]
ExecFailRun == [OkRun EXCEPT !.eq = [raises |-> TRUE, err |-> <<"n","o"," ","s","u","c","h"," ","t","a","b","l","e",":"," ","p","r","o","d","u","c","t","s">>, out |-> Empty]]
ApiRuns ==
    { [raises |-> TRUE,  run |-> OkRun],
      [raises |-> FALSE, run |-> OkRun],
      [raises |-> FALSE, run |-> ExecFailRun] }
\* an answer of the model that holds a lone surrogate code point: a str that
\* cannot be encoded as UTF-8
Surrogate == "U+D83D"
SurrogateRun ==
    [OkRun EXCEPT !.ga = [raises |-> FALSE, content |-> <<"W","e"," ","h","a","v","e"," ">> \o <<Surrogate>>]]
Encodable(text) == \A i \in 1..Len(text) : text[i] # Surrogate
UNICODE_ERROR == "'utf-8' codec can't encode character: surrogates not allowed"

\* ---- models.py

\* rows of one session, oldest first: messages.all().order_by('created_at')
SessionRows(sid) == SelectSeq(messages, LAMBDA m : m.session = sid)

Reverse(s) == [i \in 1..Len(s) |-> s[Len(s) + 1 - i]]

\* on_delete=models.CASCADE of ChatMessage.session
CascadeKeepOrphans(sid) == messages
CascadeDelete(sid) == SelectSeq(messages, LAMBDA m : m.session # sid)

\* ChatMessage.objects.create(...): the INSERT needs the session row (foreign
\* key), and save() then re-stamps the session
CanSaveMessage(sid) == sid \in DOMAIN sessions

\* A session row.  updated_at is kept as its lag: stale counts the writes to
\* the session's title or messages made since updated_at was last written
\* (0: the timestamp is the time of the latest such write).
NewSession(u, title) == [user |-> u, title |-> title, stale |-> 0]
\* ChatMessage.save: self.session.updated_at = timezone.now();
\* self.session.save(update_fields=['updated_at'])
TouchSession(sid) == [sessions EXCEPT ![sid].stale = 0]
\* Model.save() of a ChatSession: auto_now stamps updated_at when the field is
\* among those written, that is unless update_fields leaves it out
SaveSession(sid, title, update_fields) ==
    [sessions EXCEPT ![sid].title = title,
                     ![sid].stale = IF "updated_at" \in update_fields THEN 0 ELSE @ + 1]
SessionFields == {"user", "title", "updated_at"}

\* what the database does with a write: it is applied, or the statement
\* fails (OperationalError)
DbOutcomes == {"ok", "error"}
DB_ERROR == "database is locked"
NewMessage(sid, type, content, sql, result) ==
    [id |-> nextMid, session |-> sid, message_type |-> type, content |-> content,
     generated_sql |-> sql, sql_result |-> result]

\* ---- views.py, ProcessChatMessageView helpers

\* ChatSession.objects.get(id=chat_id, user=user) finds a row
OwnedAnyUser(sid, user) == sid \in DOMAIN sessions
Owned(sid, user) == sid \in DOMAIN sessions /\ sessions[sid].user = user

\* _get_conversation_history
get_conversation_history(sid) ==
    LET rows == SessionRows(sid)
    IN  [i \in 1..Len(rows) |->
            [role |-> IF rows[i].message_type = "user" THEN HUMAN ELSE ASSISTANT,
             content |-> rows[i].content]]

\* _format_message_with_history
FormatWholeHistory(current_message, conversation_history) ==
    IF conversation_history = << >> THEN current_message
    ELSE LET lines == [i \in 1..Len(conversation_history) |->
                          conversation_history[i].role \o COLON \o conversation_history[i].content]
         IN  Join(NL, <<HEADER>> \o lines \o <<Empty, CURRENT, current_message>>)
format_message_with_history(current_message, conversation_history) ==
    IF conversation_history = << >> THEN current_message
    ELSE LET recent_history == Last(conversation_history, HISTORY_WINDOW)
             lines == [i \in 1..Len(recent_history) |->
                          recent_history[i].role \o COLON \o recent_history[i].content]
             context_parts == <<HEADER>> \o lines \o <<Empty, CURRENT, current_message>>
         IN  Join(NL, context_parts)

\* _generate_chat_title: the title it stores
TitleNoEllipsis(first_message) == Take(first_message, TITLE_MAX)
generate_chat_title(first_message) ==
    IF Len(first_message) > TITLE_MAX
    THEN Take(first_message, TITLE_MAX) \o Ellipsis
    ELSE first_message

\* _process_with_llm_and_history: the engine's state, or the fixed failure state
process_with_llm_and_history(message_content, conversation_history, o) ==
    LET formatted_input == format_message_with_history(message_content, conversation_history)
        r == IF o.raises THEN [raised |-> TRUE, value |-> << >>]
             ELSE Query(formatted_input, FALSE, o.run)
    IN  IF r.raised
        THEN [question |-> message_content, query |-> FALLBACK_QUERY,
              sql_result |-> PROCESS_ERROR_RESULT, answer |-> PROCESS_APOLOGY]
        ELSE r.value

\* str(...) of a value that is text already
Str(x) == x

\* permission_classes: IsAuthenticated (AllowAny for the health check)
AllowAny(u) == TRUE
PermitEveryone(u) == TRUE
IsAuthenticated(u) == u # Anonymous

\* ChatProcessRequestSerializer.is_valid: message is required and not blank,
\* chat_id is optional, may be null, and must be a UUID otherwise
ProcessBodyAlwaysValid(data) == TRUE
ProcessBodyValid(data) ==
    /\ "message" \in DOMAIN data
    /\ data.message # Empty
    /\ "chat_id" \in DOMAIN data => IsUuid(data.chat_id)

\* CreateMessageSerializer.is_valid: content is required and not blank
AddBodyValid(data) == "content" \in DOMAIN data /\ data.content # Empty

\* the bodies of the 401 and 400 responses of the framework
NOT_AUTHENTICATED == [detail |-> "Authentication credentials were not provided."]
ValidationErrors(data, required) ==
    [f \in {g \in required : g \notin DOMAIN data \/ data[g] = Empty} |->
        IF f \in DOMAIN data THEN "This field may not be blank." ELSE "This field is required."]
    @@ (IF "chat_id" \in DOMAIN data /\ ~IsUuid(data.chat_id)
        THEN [chat_id |-> "Must be a valid UUID."] ELSE << >>)

\* post(): except ValueError -> 404, except Exception -> 500
\* UnicodeEncodeError is a subclass of ValueError
IsValueError(exc) == exc \in {"ValueError", "UnicodeEncodeError"}
HandlerStatus(exc) == IF IsValueError(exc) THEN 404 ELSE 500

\* ---- one process-message request

ReqIdle ==
    [pc |-> "idle", user |-> "alice", chat_id |-> NoSid, message |-> Empty,
     session |-> NoSid, title |-> Empty, created_new |-> FALSE,
     history |-> << >>, user_message |-> 0, input |-> Empty,
     llm_result |-> << >>, assistant_message |-> 0,
     status |-> 0, body |-> << >>, trace |-> << >>]

\* {'error': str(e)} of the ValueError clause, {'error': f'Error processing
\* message: {str(e)}'} of the Exception clause
ErrorBody(exc, text) ==
    IF IsValueError(exc) THEN [error |-> <<text>>]
    ELSE [error |-> <<"Error processing message: ", text>>]

\* a request that has answered: its locals are gone, its response remains
Finished(q, status, body) ==
    [ReqIdle EXCEPT !.pc = "done", !.status = status, !.body = body]

\* the request ends in the except clause for exc
Raise(r, exc, text) ==
    reqs' = [reqs EXCEPT ![r] = Finished(reqs[r], HandlerStatus(exc), ErrorBody(exc, text))]

\* the steps of post(), in the order the handler takes them
PostStepsEngineFirst == <<"resolve", "history", "llm", "save_user", "save_assistant", "title">>
PostStepsAssistantFirst == <<"resolve", "history", "llm", "save_assistant", "save_user", "title">>
PostStepsSaveFirst == <<"resolve", "save_user", "history", "llm", "save_assistant", "title">>
PostSteps == <<"resolve", "history", "save_user", "llm", "save_assistant", "title">>

StepAfter(pc) ==
    LET i == CHOOSE k \in 1..Len(PostSteps) : PostSteps[k] = pc
    IN  IF i = Len(PostSteps) THEN "done" ELSE PostSteps[i + 1]

\* A request arrives: as_view() builds the view, whose __init__ builds the
\* engine (SQLQuerySystem(): _init_database and _init_llm re-raise their
\* failures) before the request is dispatched.
ProcessBegin(r, engine_built) ==
    /\ reqs[r].pc \in {"idle", "done"}
    /\ IF engine_built
       THEN reqs' = [reqs EXCEPT ![r] = [ReqIdle EXCEPT !.pc = "post"]]
       ELSE reqs' = [reqs EXCEPT ![r] =
                [ReqIdle EXCEPT !.pc = "done", !.status = 500,
                                !.body = [unhandled |-> "engine construction failed"]]]
    /\ UNCHANGED <<sessions, nextSid, messages, nextMid, resp, eng, fmt, redis, catalog, seed, admin, config, agent, processed>>

\* The request is dispatched: initial() checks the permission, then post()
\* validates the body and reads the validated chat_id and message and
\* request.user.
ProcessPost(r, u, data) ==
    /\ reqs[r].pc = "post"
    /\ IF ~IsAuthenticated(u)
       THEN reqs' = [reqs EXCEPT ![r] = Finished(reqs[r], 401, NOT_AUTHENTICATED)]
       ELSE IF ~ProcessBodyValid(data)
       THEN reqs' = [reqs EXCEPT ![r] =
                Finished(reqs[r], 400, ValidationErrors(data, {"message"}))]
       ELSE reqs' = [reqs EXCEPT ![r].pc = PostSteps[1], ![r].user = u,
                                 ![r].chat_id = DictGet(data, "chat_id", NoSid),
                                 ![r].message = DictGet(data, "message", Empty)]
    /\ UNCHANGED <<sessions, nextSid, messages, nextMid, resp, eng, fmt, redis, catalog, seed, admin, config, agent, processed>>

\* Step 1: _get_or_create_chat_session
ProcessResolve(r) ==
    LET q == reqs[r] IN
    /\ q.pc = "resolve"
    /\ IF q.chat_id # NoSid
       THEN /\ IF Owned(q.chat_id, q.user)
               THEN reqs' = [reqs EXCEPT ![r].pc = StepAfter("resolve"),
                                         ![r].session = q.chat_id,
                                         ![r].title = sessions[q.chat_id].title,
                                         ![r].created_new = FALSE]
               ELSE Raise(r, "ValueError", "Chat session not found")
            /\ UNCHANGED <<sessions, nextSid>>
       ELSE /\ nextSid <= MaxSessions
            /\ sessions' = (nextSid :> NewSession(q.user, Empty)) @@ sessions
            /\ nextSid' = nextSid + 1
            /\ reqs' = [reqs EXCEPT ![r].pc = StepAfter("resolve"),
                                    ![r].session = nextSid,
                                    ![r].title = Empty,
                                    ![r].created_new = TRUE]
    /\ UNCHANGED <<messages, nextMid, resp, eng, fmt, redis, catalog, seed, admin, config, agent, processed>>

\* Step 2: _get_conversation_history
ProcessHistory(r) ==
    LET q == reqs[r] IN
    /\ q.pc = "history"
    /\ reqs' = [reqs EXCEPT ![r].pc = StepAfter("history"),
                            ![r].history = get_conversation_history(q.session)]
    /\ UNCHANGED <<sessions, nextSid, messages, nextMid, resp, eng, fmt, redis, catalog, seed, admin, config, agent, processed>>

\* Step 3: ChatMessage.objects.create(session, 'user', content)
ProcessSaveUser(r, db) ==
    LET q == reqs[r] IN
    /\ q.pc = "save_user"
    /\ IF db = "error"
       THEN /\ Raise(r, "OperationalError", DB_ERROR)
            /\ UNCHANGED <<sessions, messages, nextMid>>
       ELSE IF CanSaveMessage(q.session)
       THEN /\ nextMid <= MaxMsgs
            /\ messages' = Append(messages,
                   NewMessage(q.session, "user", q.message, Empty, Empty))
            /\ nextMid' = nextMid + 1
            /\ sessions' = TouchSession(q.session)
            /\ reqs' = [reqs EXCEPT ![r].pc = StepAfter("save_user"),
                                    ![r].user_message = nextMid,
                                    ![r].trace = Append(q.trace, "user_saved")]
       ELSE /\ Raise(r, "IntegrityError", "FOREIGN KEY constraint failed")
            /\ UNCHANGED <<sessions, messages, nextMid>>
    /\ UNCHANGED <<nextSid, resp, eng, fmt, redis, catalog, seed, admin, config, agent, processed>>

\* Step 4: _process_with_llm_and_history
ProcessLLM(r, o) ==
    LET q == reqs[r] IN
    /\ q.pc = "llm"
    /\ reqs' = [reqs EXCEPT
           ![r].pc = StepAfter("llm"),
           ![r].input = format_message_with_history(q.message, q.history),
           ![r].llm_result = process_with_llm_and_history(q.message, q.history, o),
           ![r].trace = q.trace \o <<"engine_invoked",
                            IF o.raises THEN "engine_raised" ELSE "engine_returned">>]
    /\ UNCHANGED <<sessions, nextSid, messages, nextMid, resp, eng, fmt, redis, catalog, seed, admin, config, agent, processed>>

\* Step 5: ChatMessage.objects.create(session, 'assistant', answer, query, result).
\* The driver encodes the texts as UTF-8 when it binds them to the INSERT.
ProcessSaveAssistant(r, db) ==
    LET q == reqs[r] IN
    /\ q.pc = "save_assistant"
    /\ IF ~Encodable(DictGet(q.llm_result, "answer", NO_RESPONSE))
       THEN /\ db = "ok"
            /\ Raise(r, "UnicodeEncodeError", UNICODE_ERROR)
            /\ UNCHANGED <<sessions, messages, nextMid>>
       ELSE IF db = "error"
       THEN /\ Raise(r, "OperationalError", DB_ERROR)
            /\ UNCHANGED <<sessions, messages, nextMid>>
       ELSE IF CanSaveMessage(q.session)
       THEN /\ nextMid <= MaxMsgs
            /\ sessions' = TouchSession(q.session)
            /\ messages' = Append(messages,
                   NewMessage(q.session, "assistant",
                              DictGet(q.llm_result, "answer", NO_RESPONSE),
                              DictGet(q.llm_result, "query", Empty),
                              Str(DictGet(q.llm_result, "sql_result", Empty))))
            /\ nextMid' = nextMid + 1
            /\ reqs' = [reqs EXCEPT ![r].pc = StepAfter("save_assistant"),
                                    ![r].assistant_message = nextMid,
                                    ![r].trace = Append(q.trace, "assistant_saved")]
       ELSE /\ Raise(r, "IntegrityError", "FOREIGN KEY constraint failed")
            /\ UNCHANGED <<sessions, messages, nextMid>>
    /\ UNCHANGED <<nextSid, resp, eng, fmt, redis, catalog, seed, admin, config, agent, processed>>

\* Steps 6 and 7: the title of a new chat, then the response.  The test reads
\* the title of the request's own chat_session object; save(update_fields=
\* ['title']) is an UPDATE that raises when the row is gone.
ProcessTitle(r, db) ==
    LET q == reqs[r]
        answer == DictGet(q.llm_result, "answer", NO_RESPONSE)
        body == [chat_id |-> q.session, answer |-> answer,
                 created_new_chat |-> q.created_new]
    IN
    /\ q.pc = "title"
    /\ IF q.created_new /\ q.title = Empty
       THEN IF db = "error"
            THEN /\ Raise(r, "OperationalError", DB_ERROR)
                 /\ UNCHANGED sessions
            ELSE IF q.session \in DOMAIN sessions
            THEN /\ sessions' = SaveSession(q.session, generate_chat_title(q.message), {"title"})
                 /\ reqs' = [reqs EXCEPT ![r] = Finished(q, 200, body)]
            ELSE /\ Raise(r, "DatabaseError", "Save with update_fields did not affect any rows.")
                 /\ UNCHANGED sessions
       ELSE /\ db = "ok"
            /\ reqs' = [reqs EXCEPT ![r] = Finished(q, 200, body)]
            /\ UNCHANGED sessions
    /\ UNCHANGED <<nextSid, messages, nextMid, resp, eng, fmt, redis, catalog, seed, admin, config, agent, processed>>

\* ---- the session CRUD views

NoResp == [op |-> "none", user |-> "alice", sid |-> NoSid, status |-> 0, data |-> << >>]

\* the response of a CRUD view, with the call it answers
Response(op, u, sid, status, data) ==
    [op |-> op, user |-> u, sid |-> sid, status |-> status, data |-> data]

\* ChatSessionSerializer / ChatSessionDetailSerializer / ChatMessageSerializer
MessageData(m) ==
    [id |-> m.id, message_type |-> m.message_type, content |-> m.content,
     generated_sql |-> m.generated_sql, sql_result |-> m.sql_result]
SessionData(sid, title) == [id |-> sid, title |-> title]
DetailData(sid) ==
    LET rows == Reverse(SessionRows(sid))      \* Meta.ordering = ['-created_at']
    IN  [id |-> sid, title |-> sessions[sid].title,
         messages |-> [i \in 1..Len(rows) |-> MessageData(rows[i])]]

\* HealthCheckView.get: permission_classes = [AllowAny]
HEALTHY == [status |-> "healthy"]
HealthCheck(u) ==
    /\ IF ~AllowAny(u)
       THEN resp' = Response("health", u, NoSid, 401, NOT_AUTHENTICATED)
       ELSE resp' = Response("health", u, NoSid, 200, HEALTHY)
    /\ UNCHANGED <<sessions, nextSid, messages, nextMid, reqs, eng, fmt, redis, catalog, seed, admin, config, agent, processed>>

\* ChatSessionListView: the caller's sessions
ListData(u) ==
    [sessions |-> {SessionData(sid, sessions[sid].title) :
                      sid \in {s \in DOMAIN sessions : sessions[s].user = u}}]
ListChats(u) ==
    /\ IF ~IsAuthenticated(u)
       THEN resp' = Response("list", u, NoSid, 401, NOT_AUTHENTICATED)
       ELSE resp' = Response("list", u, NoSid, 200, ListData(u))
    /\ UNCHANGED <<sessions, nextSid, messages, nextMid, reqs, eng, fmt, redis, catalog, seed, admin, config, agent, processed>>

\* CreateChatView.create
CreateChat(u, title) ==
    /\ IF ~IsAuthenticated(u)
       THEN /\ resp' = Response("create", u, NoSid, 401, NOT_AUTHENTICATED)
            /\ UNCHANGED <<sessions, nextSid>>
       ELSE /\ nextSid <= MaxSessions
            /\ sessions' = (nextSid :> NewSession(u, title)) @@ sessions
            /\ nextSid' = nextSid + 1
            /\ resp' = Response("create", u, nextSid, 201, SessionData(nextSid, title))
    /\ UNCHANGED <<messages, nextMid, reqs, eng, fmt, redis, catalog, seed, admin, config, agent, processed>>

\* ChatSessionDetailView: get_queryset filters by the caller, get_object 404s
GetDetail(u, sid) ==
    /\ IF ~IsAuthenticated(u)
       THEN resp' = Response("detail", u, sid, 401, NOT_AUTHENTICATED)
       ELSE IF Owned(sid, u)
       THEN resp' = Response("detail", u, sid, 200, DetailData(sid))
       ELSE resp' = Response("detail", u, sid, 404, << >>)
    /\ UNCHANGED <<sessions, nextSid, messages, nextMid, reqs, eng, fmt, redis, catalog, seed, admin, config, agent, processed>>

\* AddMessageToChatView.create: the body is validated, then the session is
\* looked up, then the message is saved
AddMessage(u, sid, data) ==
    /\ IF ~IsAuthenticated(u)
       THEN /\ resp' = Response("add_message", u, sid, 401, NOT_AUTHENTICATED)
            /\ UNCHANGED <<sessions, messages, nextMid>>
       ELSE IF ~AddBodyValid(data)
       THEN /\ resp' = Response("add_message", u, sid, 400,
                              ValidationErrors(data, {"content"}))
            /\ UNCHANGED <<sessions, messages, nextMid>>
       ELSE IF Owned(sid, u)
       THEN /\ nextMid <= MaxMsgs
            /\ sessions' = TouchSession(sid)
            /\ messages' = Append(messages,
                   NewMessage(sid, "user", data.content, Empty, Empty))
            /\ nextMid' = nextMid + 1
            /\ resp' = Response("add_message", u, sid, 201,
                   MessageData(NewMessage(sid, "user", data.content, Empty, Empty)))
       ELSE /\ resp' = Response("add_message", u, sid, 404, << >>)
            /\ UNCHANGED <<sessions, messages, nextMid>>
    /\ UNCHANGED <<nextSid, reqs, eng, fmt, redis, catalog, seed, admin, config, agent, processed>>

\* UpdateChatTitleView
UpdateTitle(u, sid, title) ==
    /\ IF ~IsAuthenticated(u)
       THEN /\ resp' = Response("update_title", u, sid, 401, NOT_AUTHENTICATED)
            /\ UNCHANGED sessions
       ELSE IF Owned(sid, u)
       THEN /\ sessions' = SaveSession(sid, title, SessionFields)
            /\ resp' = Response("update_title", u, sid, 200, SessionData(sid, title))
       ELSE /\ resp' = Response("update_title", u, sid, 404, << >>)
            /\ UNCHANGED sessions
    /\ UNCHANGED <<nextSid, messages, nextMid, reqs, eng, fmt, redis, catalog, seed, admin, config, agent, processed>>

\* DeleteChatView.destroy: the session row and, by cascade, its messages
DeleteChat(u, sid) ==
    /\ IF ~IsAuthenticated(u)
       THEN /\ resp' = Response("delete", u, sid, 401, NOT_AUTHENTICATED)
            /\ UNCHANGED <<sessions, messages>>
       ELSE IF Owned(sid, u)
       THEN /\ sessions' = [s \in DOMAIN sessions \ {sid} |-> sessions[s]]
            /\ messages' = CascadeDelete(sid)
            /\ resp' = Response("delete", u, sid, 200, << >>)
       ELSE /\ resp' = Response("delete", u, sid, 404, << >>)
            /\ UNCHANGED <<sessions, messages>>
    /\ UNCHANGED <<nextSid, nextMid, reqs, eng, fmt, redis, catalog, seed, admin, config, agent, processed>>

\* ---- the text sent to the engine (specification SpecFormat)
\* One session whose stored messages grow one row at a time; between two rows
\* the handler reads the history and formats an incoming message with it.

MaxHist == 22
FmtSid == CHOOSE s \in Sids : \A t \in Sids : s <= t
FmtPatterns == {"user_first", "assistant_first", "users_only"}
FmtTexts == { <<"a","n","d"," ","t","h","e"," ","c","h","e","a","p","e","s","t","?">>, <<"o","k">> }

\* the type of the i-th stored row under a pattern of conversation
FmtRowType(pattern, i) ==
    IF pattern = "users_only" THEN "user"
    ELSE IF (pattern = "user_first") = (i % 2 = 1) THEN "user"
    ELSE "assistant"

FmtStart(pattern) ==
    [pc |-> "idle", pattern |-> pattern, history |-> << >>, message |-> Empty, out |-> Empty]

\* ChatMessage.objects.create(...) on the session: one more prior message
FmtStoreRow ==
    /\ fmt.pc \in {"idle", "formatted"}
    /\ Len(messages) < MaxHist
    /\ messages' = Append(messages,
           NewMessage(FmtSid, FmtRowType(fmt.pattern, Len(messages) + 1),
                      TextOfLen(Len(messages) + 1), Empty, Empty))
    /\ nextMid' = nextMid + 1
    /\ fmt' = FmtStart(fmt.pattern)
    /\ UNCHANGED <<sessions, nextSid, reqs, resp, eng, redis, catalog, seed, admin, config, agent, processed>>

\* conversation_history = self._get_conversation_history(chat_session)
FmtReadHistory ==
    /\ fmt.pc \in {"idle", "formatted"}
    /\ fmt' = [FmtStart(fmt.pattern) EXCEPT !.pc = "read",
                  !.history = get_conversation_history(FmtSid)]
    /\ UNCHANGED <<chatVars, eng, redis, catalog, seed, admin, config, agent, processed>>

\* formatted_input = self._format_message_with_history(message_content, conversation_history)
FmtFormat(message_content) ==
    /\ fmt.pc = "read"
    /\ fmt' = [fmt EXCEPT !.pc = "formatted", !.message = message_content,
                  !.out = format_message_with_history(message_content, fmt.history)]
    /\ UNCHANGED <<chatVars, eng, redis, catalog, seed, admin, config, agent, processed>>

NextFormat ==
    \/ FmtStoreRow
    \/ FmtReadHistory
    \/ \E m \in FmtTexts : FmtFormat(m)

\* ------------------------------------------------------------ cache wrapper
\* chatapi/services/redis_service.py (specification SpecRedis)

REDIS_KEEP == 10
DEFAULT_TTL == 3600
MaxAppends == 11
MaxSecond == 1
Callers == {"w1", "w2"}
RedisTexts == { <<"h","i">> }
RedisResponse == [answer |-> <<"o","k">>]

DigitChars == <<"0", "1", "2", "3", "4", "5", "6", "7", "8", "9">>
RECURSIVE Digits(_)
\* str(n) for n >= 0
Digits(n) == IF n < 10 THEN <<DigitChars[n + 1]>> ELSE Digits(n \div 10) \o <<DigitChars[(n % 10) + 1]>>

\* datetime.now().isoformat() at the n-th reading of the clock
IsoFormat(n) == <<"2","0","2","5","-","0","1","-","0","1","T","0","0",":","0","0",":">> \o (IF n < 10 THEN <<"0">> ELSE Empty) \o Digits(n)

\* json.dumps({"message": ..., "response": ..., "timestamp": ...})
JsonDumps(data) ==
    <<"{","\"","m","e","s","s","a","g","e","\"",":"," ","\"">> \o data.message
    \o <<"\"",","," ","\"","r","e","s","p","o","n","s","e","\"",":"," ","{","\"","a","n","s","w","e","r","\"",":"," ","\"">> \o data.response.answer
    \o <<"\"","}",","," ","\"","t","i","m","e","s","t","a","m","p","\"",":"," ","\"">> \o data.timestamp \o <<"\"","}">>

\* LTRIM key start stop, for 0 <= start <= stop
Ltrim(list, start, stop) == SubSeq(list, start + 1, Min(stop + 1, Len(list)))

CallerIdle == [pc |-> "idle", data |-> Empty, alone |-> TRUE]

\* list: the Redis list under chat:<id>:messages (absent = empty); ttl: the
\* expiry set on the key (0 = none); clock: readings of datetime.now() so far;
\* pushed: every value ever LPUSHed, in order; lapsed: whether the key has
\* ever expired; last: how the latest finished call ended; second: calls made
\* by the second worker
RedisStart ==
    [list |-> << >>, ttl |-> 0, clock |-> 0, second |-> 0, pushed |-> << >>, lapsed |-> FALSE,
     callers |-> [c \in Callers |-> CallerIdle],
     last |-> [how |-> "none", alone |-> TRUE]]

InFlight(c) == redis.callers[c].pc # "idle"

\* append_message(chat_id, message, response): key and data are built
RedisAppendMessage(c, message) ==
    /\ ~InFlight(c)
    /\ redis.clock < MaxAppends
    /\ c = "w2" => redis.second < MaxSecond
    /\ redis' = [redis EXCEPT
           !.clock = redis.clock + 1,
           !.second = IF c = "w2" THEN @ + 1 ELSE @,
           !.callers = [d \in Callers |->
               IF d = c
               THEN [pc |-> "lpush",
                     data |-> JsonDumps([message |-> message, response |-> RedisResponse,
                                         timestamp |-> IsoFormat(redis.clock + 1)]),
                     alone |-> \A e \in Callers \ {c} : ~InFlight(e)]
               ELSE [redis.callers[d] EXCEPT !.alone = ~InFlight(d) /\ @]]]
    /\ UNCHANGED <<chatVars, eng, fmt, catalog, seed, admin, config, agent, processed>>

\* self.client.lpush(key, json.dumps(data)); a new key has no expiry
RedisLpush(c) ==
    /\ redis.callers[c].pc = "lpush"
    /\ redis' = [redis EXCEPT
           !.list = <<redis.callers[c].data>> \o redis.list,
           !.pushed = Append(redis.pushed, redis.callers[c].data),
           !.callers[c].pc = "ltrim"]
    /\ UNCHANGED <<chatVars, eng, fmt, catalog, seed, admin, config, agent, processed>>

RedisLtrimKeepsAll(c) ==
    /\ redis.callers[c].pc = "ltrim"
    /\ redis' = [redis EXCEPT !.callers[c].pc = "expire"]
    /\ UNCHANGED <<chatVars, eng, fmt, catalog, seed, admin, config, agent, processed>>
\* self.client.ltrim(key, 0, 9)
RedisLtrim(c) ==
    /\ redis.callers[c].pc = "ltrim"
    /\ redis' = [redis EXCEPT
           !.list = Ltrim(redis.list, 0, REDIS_KEEP - 1),
           !.callers[c].pc = "expire"]
    /\ UNCHANGED <<chatVars, eng, fmt, catalog, seed, admin, config, agent, processed>>

\* self.client.expire(key, self.default_ttl), and the call returns
RedisExpire(c) ==
    /\ redis.callers[c].pc = "expire"
    /\ redis' = [redis EXCEPT
           !.ttl = IF redis.list = << >> THEN 0 ELSE DEFAULT_TTL,
           !.callers[c] = CallerIdle,
           !.last = [how |-> "completed", alone |-> redis.callers[c].alone]]
    /\ UNCHANGED <<chatVars, eng, fmt, catalog, seed, admin, config, agent, processed>>

\* ltrim raises (redis.exceptions.ConnectionError): the call ends there, with
\* its value pushed and the list not trimmed
RedisCommandFails(c) ==
    /\ redis.callers[c].pc = "ltrim"
    /\ redis' = [redis EXCEPT
           !.callers[c] = CallerIdle,
           !.last = [how |-> "failed", alone |-> redis.callers[c].alone]]
    /\ UNCHANGED <<chatVars, eng, fmt, catalog, seed, admin, config, agent, processed>>

\* the server drops the key when its time to live has run out
RedisKeyExpires ==
    /\ redis.ttl > 0
    /\ redis' = [redis EXCEPT !.list = << >>, !.ttl = 0, !.lapsed = TRUE]
    /\ UNCHANGED <<chatVars, eng, fmt, catalog, seed, admin, config, agent, processed>>

NextRedis ==
    \/ \E c \in Callers, m \in RedisTexts : RedisAppendMessage(c, m)
    \/ \E c \in Callers : RedisLpush(c)
    \/ \E c \in Callers : RedisLtrim(c)
    \/ \E c \in Callers : RedisExpire(c)
    \/ \E c \in Callers : RedisCommandFails(c)
    \/ RedisKeyExpires

\* ------------------------------------------------------ catalog seeding
\* products/management/commands/seed_products.py (specification SpecSeed)

categories_data ==
    << [name |-> "Electronics", slug |-> "electronics"],
       [name |-> "Clothing", slug |-> "clothing"],
       [name |-> "Home & Garden", slug |-> "home-garden"] >>

brands_data ==
    << [name |-> "Apple", slug |-> "apple"],
       [name |-> "Samsung", slug |-> "samsung"],
       [name |-> "Sony", slug |-> "sony"],
       [name |-> "Dell", slug |-> "dell"],
       [name |-> "Nike", slug |-> "nike"],
       [name |-> "Adidas", slug |-> "adidas"],
       [name |-> "Zara", slug |-> "zara"],
       [name |-> "H&M", slug |-> "hm"],
       [name |-> "IKEA", slug |-> "ikea"],
       [name |-> "Home Depot", slug |-> "home-depot"],
       [name |-> "Wayfair", slug |-> "wayfair"] >>

products_data ==
    << [name |-> "iPhone 15 Pro", brand |-> "Apple", category |-> "Electronics", sku |-> "APL-IPH15P-001"],
       [name |-> "MacBook Air M3", brand |-> "Apple", category |-> "Electronics", sku |-> "APL-MBA-M3-001"],
       [name |-> "Galaxy S24 Ultra", brand |-> "Samsung", category |-> "Electronics", sku |-> "SAM-GS24U-001"],
       [name |-> "PlayStation 5", brand |-> "Sony", category |-> "Electronics", sku |-> "SNY-PS5-001"],
       [name |-> "WH-1000XM5 Headphones", brand |-> "Sony", category |-> "Electronics", sku |-> "SNY-WH1000XM5-001"],
       [name |-> "XPS 13 Laptop", brand |-> "Dell", category |-> "Electronics", sku |-> "DEL-XPS13-001"],
       [name |-> "Galaxy Buds Pro 3", brand |-> "Samsung", category |-> "Electronics", sku |-> "SAM-GBP3-001"],
       [name |-> "iPad Air M2", brand |-> "Apple", category |-> "Electronics", sku |-> "APL-IPA-M2-001"],
       [name |-> "65\" OLED TV", brand |-> "Sony", category |-> "Electronics", sku |-> "SNY-OLED65-001"],
       [name |-> "Alienware Gaming Laptop", brand |-> "Dell", category |-> "Electronics", sku |-> "DEL-ALW-001"],
       [name |-> "Air Jordan 1 Retro High", brand |-> "Nike", category |-> "Clothing", sku |-> "NIK-AJ1R-001"],
       [name |-> "Ultraboost 23 Running Shoes", brand |-> "Adidas", category |-> "Clothing", sku |-> "ADI-UB23-001"],
       [name |-> "Oversized Blazer", brand |-> "Zara", category |-> "Clothing", sku |-> "ZAR-OBL-001"],
       [name |-> "Conscious Cotton T-Shirt", brand |-> "H&M", category |-> "Clothing", sku |-> "HM-CCT-001"],
       [name |-> "Tech Fleece Hoodie", brand |-> "Nike", category |-> "Clothing", sku |-> "NIK-TFH-001"],
       [name |-> "Stan Smith Sneakers", brand |-> "Adidas", category |-> "Clothing", sku |-> "ADI-SS-001"],
       [name |-> "Midi Wrap Dress", brand |-> "Zara", category |-> "Clothing", sku |-> "ZAR-MWD-001"],
       [name |-> "Organic Cotton Jeans", brand |-> "H&M", category |-> "Clothing", sku |-> "HM-OCJ-001"],
       [name |-> "Dri-FIT Training Shorts", brand |-> "Nike", category |-> "Clothing", sku |-> "NIK-DFT-001"],
       [name |-> "Firebird Track Jacket", brand |-> "Adidas", category |-> "Clothing", sku |-> "ADI-FTJ-001"],
       [name |-> "HEMNES Bed Frame", brand |-> "IKEA", category |-> "Home & Garden", sku |-> "IKE-HEM-BF-001"],
       [name |-> "KLIPPAN Loveseat Sofa", brand |-> "IKEA", category |-> "Home & Garden", sku |-> "IKE-KLP-LS-001"],
       [name |-> "Cordless Drill Set", brand |-> "Home Depot", category |-> "Home & Garden", sku |-> "HD-CDS-001"],
       [name |-> "6-Tier Storage Rack", brand |-> "Wayfair", category |-> "Home & Garden", sku |-> "WAY-6TSR-001"],
       [name |-> "Garden Hose 50ft", brand |-> "Home Depot", category |-> "Home & Garden", sku |-> "HD-GH50-001"],
       [name |-> "FRIHETEN Corner Sofa-Bed", brand |-> "IKEA", category |-> "Home & Garden", sku |-> "IKE-FRI-CSB-001"],
       [name |-> "Upholstered Dining Chair Set", brand |-> "Wayfair", category |-> "Home & Garden", sku |-> "WAY-UDC-SET-001"],
       [name |-> "LED Work Light", brand |-> "Home Depot", category |-> "Home & Garden", sku |-> "HD-LWL-001"],
       [name |-> "Bamboo Coffee Table", brand |-> "Wayfair", category |-> "Home & Garden", sku |-> "WAY-BCT-001"],
       [name |-> "MALM Desk with Drawer", brand |-> "IKEA", category |-> "Home & Garden", sku |-> "IKE-MAL-DWD-001"] >>

MaxRuns == 3

\* A table row is a record with an id; a catalog holds the three tables and
\* the next primary key of each (AUTOINCREMENT: keys are not reused).
CatalogEmpty ==
    [categories |-> {}, brands |-> {}, products |-> {},
     next |-> [categories |-> 1, brands |-> 1, products |-> 1]]

Range(s) == {s[i] : i \in DOMAIN s}

\* unique=True columns (products/models.py)
NamedUniques == {"name", "slug"}
ProductUniques == {"sku"}

\* catalogs the command can find when it starts
PriorPartial ==
    [categories |-> {[id |-> 1, name |-> "Electronics", slug |-> "electronics"]},
     brands |-> {[id |-> 1, name |-> "Apple", slug |-> "apple"]},
     products |-> {[id |-> 1, name |-> "iPhone 15 Pro", brand |-> 1, category |-> 1,
                    sku |-> "APL-IPH15P-001"]},
     next |-> [categories |-> 2, brands |-> 2, products |-> 2]]
PriorNameTaken ==
    [categories |-> {[id |-> 1, name |-> "Electronics", slug |-> "electronics-old"]},
     brands |-> {}, products |-> {},
     next |-> [categories |-> 2, brands |-> 1, products |-> 1]]
PriorRenamedBrand ==
    [categories |-> {},
     brands |-> {[id |-> 1, name |-> "Apple Inc.", slug |-> "apple"]},
     products |-> {},
     next |-> [categories |-> 1, brands |-> 2, products |-> 1]]
PriorForeign ==
    [categories |-> {[id |-> 1, name |-> "Toys", slug |-> "toys"]},
     brands |-> {[id |-> 1, name |-> "Lego", slug |-> "lego"]},
     products |-> {[id |-> 1, name |-> "Brick Box", brand |-> 1, category |-> 1,
                    sku |-> "LEG-BRK-001"]},
     next |-> [categories |-> 2, brands |-> 2, products |-> 2]]
PriorCatalogs == {CatalogEmpty, PriorPartial, PriorNameTaken, PriorRenamedBrand, PriorForeign}

\* Model.objects.all().delete()
DeleteNothing(rows) == rows
delete_all(rows) == {}

\* on_delete=models.CASCADE: the products left when their parents are gone
CascadeProducts(products, categories, brands) ==
    {p \in products : /\ \E c \in categories : c.id = p.category
                      /\ \E b \in brands : b.id = p.brand}

\* Model.objects.get_or_create(<field>=defaults[field], defaults=defaults):
\* the row found, the row created, or the IntegrityError of a unique column
GetOrCreateNoLookup(rows, field, defaults, uniques, id) ==
    IF \E r \in rows : \E f \in uniques : r[f] = defaults[f]
    THEN [raised |-> TRUE, created |-> FALSE, obj |-> << >>]
    ELSE [raised |-> FALSE, created |-> TRUE, obj |-> [id |-> id] @@ defaults]
get_or_create(rows, field, defaults, uniques, id) ==
    LET found == {r \in rows : r[field] = defaults[field]}
    IN  IF found # {}
        THEN [raised |-> FALSE, created |-> FALSE, obj |-> CHOOSE r \in found : TRUE]
        ELSE IF \E r \in rows : \E f \in uniques : r[f] = defaults[f]
        THEN [raised |-> TRUE, created |-> FALSE, obj |-> << >>]
        ELSE [raised |-> FALSE, created |-> TRUE, obj |-> [id |-> id] @@ defaults]

\* {obj.name: obj for obj in objs}.get(name): the last object of that name,
\* or none
RECURSIVE LookupByName(_, _)
LookupByName(objs, name) ==
    IF objs = << >> THEN << >>
    ELSE IF objs[Len(objs)].name = name THEN objs[Len(objs)]
    ELSE LookupByName(SubSeq(objs, 1, Len(objs) - 1), name)

SeedLocals ==
    [i |-> 1, snapshot |-> << >>, categories |-> << >>, brands |-> << >>,
     products_created |-> 0]
SeedIdle ==
    [pc |-> "idle", clear |-> FALSE, runs |-> 0, start |-> CatalogEmpty,
     created |-> 0, outcome |-> "none", log |-> << >>, report |-> << >>] @@ SeedLocals

\* the run is over: its locals are gone, its outcome is logged
SeedEnded(outcome, created) ==
    [k \in DOMAIN seed |->
        IF k = "pc" THEN "done"
        ELSE IF k = "outcome" THEN outcome
        ELSE IF k = "created" THEN created
        ELSE IF k = "log" THEN Append(seed.log,
                 [clear |-> seed.clear, outcome |-> outcome, created |-> created])
        ELSE IF k \in DOMAIN SeedLocals THEN SeedLocals[k]
        ELSE seed[k]]

\* an exception leaves the atomic block: the block's writes are rolled back
SeedRollback(exc) ==
    /\ catalog' = seed.snapshot
    /\ seed' = SeedEnded(exc, 0)

\* an exception leaves handle() before the atomic block was entered: every
\* delete done so far was committed on its own
SeedAbort(exc) ==
    /\ catalog' = catalog
    /\ seed' = SeedEnded(exc, 0)

\* python manage.py seed_products [--clear]
SeedRun(clear) ==
    /\ seed.pc \in {"idle", "done"}
    /\ seed.runs < MaxRuns
    /\ seed' = [seed EXCEPT !.pc = IF clear THEN "clear_products" ELSE "atomic",
                            !.clear = clear, !.runs = @ + 1, !.start = catalog,
                            !.created = 0, !.outcome = "none", !.report = << >>]
    /\ UNCHANGED <<chatVars, eng, fmt, redis, catalog, admin, config, agent, processed>>

\* Product.objects.all().delete()
SeedClearProducts(db) ==
    /\ seed.pc = "clear_products"
    /\ IF db = "error" THEN SeedAbort("OperationalError")
       ELSE /\ catalog' = [catalog EXCEPT !.products = delete_all(@)]
            /\ seed' = [seed EXCEPT !.pc = "clear_categories"]
    /\ UNCHANGED <<chatVars, eng, fmt, redis, admin, config, agent, processed>>

\* Category.objects.all().delete()
SeedClearCategories(db) ==
    /\ seed.pc = "clear_categories"
    /\ IF db = "error" THEN SeedAbort("OperationalError")
       ELSE /\ catalog' = [catalog EXCEPT
                   !.categories = delete_all(@),
                   !.products = CascadeProducts(@, delete_all(catalog.categories), catalog.brands)]
            /\ seed' = [seed EXCEPT !.pc = "clear_brands"]
    /\ UNCHANGED <<chatVars, eng, fmt, redis, admin, config, agent, processed>>

\* Brand.objects.all().delete()
SeedClearBrands(db) ==
    /\ seed.pc = "clear_brands"
    /\ IF db = "error" THEN SeedAbort("OperationalError")
       ELSE /\ catalog' = [catalog EXCEPT
                   !.brands = delete_all(@),
                   !.products = CascadeProducts(@, catalog.categories, delete_all(catalog.brands))]
            /\ seed' = [seed EXCEPT !.pc = "atomic"]
    /\ UNCHANGED <<chatVars, eng, fmt, redis, admin, config, agent, processed>>

\* with transaction.atomic():
SeedAtomic ==
    /\ seed.pc = "atomic"
    /\ seed' = [seed EXCEPT !.pc = "categories", !.i = 1, !.snapshot = catalog]
    /\ UNCHANGED <<chatVars, eng, fmt, redis, catalog, admin, config, agent, processed>>

\* one turn of a get_or_create loop over a table of named rows
SeedNamed(table, data, after, db) ==
    LET r == get_or_create(catalog[table], "slug", data[seed.i], NamedUniques,
                           catalog.next[table])
    IN  IF db = "error" THEN SeedRollback("OperationalError")
        ELSE IF r.raised THEN SeedRollback("IntegrityError")
        ELSE /\ catalog' = IF r.created
                           THEN [catalog EXCEPT ![table] = @ \cup {r.obj},
                                                !.next[table] = @ + 1]
                           ELSE catalog
             /\ seed' = [seed EXCEPT
                    ![table] = Append(@, r.obj),
                    !.created = IF r.created THEN @ + 1 ELSE @,
                    !.i = IF seed.i = Len(data) THEN 1 ELSE @ + 1,
                    !.pc = IF seed.i = Len(data) THEN after ELSE @]

\* for cat_data in categories_data: Category.objects.get_or_create(slug=...)
SeedCategory(db) ==
    /\ seed.pc = "categories"
    /\ SeedNamed("categories", categories_data, "brands", db)
    /\ UNCHANGED <<chatVars, eng, fmt, redis, admin, config, agent, processed>>

\* for brand_data in brands_data: Brand.objects.get_or_create(slug=...)
SeedBrand(db) ==
    /\ seed.pc = "brands"
    /\ SeedNamed("brands", brands_data, "products", db)
    /\ UNCHANGED <<chatVars, eng, fmt, redis, admin, config, agent, processed>>

\* for product_data in products_data: look the brand and category up by name,
\* skip the product when one is missing, else Product.objects.get_or_create(sku=...)
SeedProduct(db) ==
    LET product_data == products_data[seed.i]
        brand == LookupByName(seed.brands, product_data.brand)
        category == LookupByName(seed.categories, product_data.category)
        skipped == brand = << >> \/ category = << >>
        product_data_clean ==
            [name |-> product_data.name, brand |-> brand.id, category |-> category.id,
             sku |-> product_data.sku]
        r == IF skipped THEN [raised |-> FALSE, created |-> FALSE, obj |-> << >>]
             ELSE get_or_create(catalog.products, "sku", product_data_clean,
                                ProductUniques, catalog.next.products)
    IN  /\ seed.pc = "products"
        /\ IF db = "error" /\ ~skipped THEN SeedRollback("OperationalError")
           ELSE IF r.raised THEN SeedRollback("IntegrityError")
           ELSE /\ catalog' = IF r.created
                              THEN [catalog EXCEPT !.products = @ \cup {r.obj},
                                                   !.next.products = @ + 1]
                              ELSE catalog
                /\ seed' = [seed EXCEPT
                       !.products_created = IF r.created THEN @ + 1 ELSE @,
                       !.created = IF r.created THEN @ + 1 ELSE @,
                       !.i = IF seed.i = Len(products_data) THEN 1 ELSE @ + 1,
                       !.pc = IF seed.i = Len(products_data) THEN "summary" ELSE @]
        /\ UNCHANGED <<chatVars, eng, fmt, redis, admin, config, agent, processed>>

\* 'Seeding completed successfully!' with len(categories), len(brands) and
\* products_created, then for each category of the list the number of
\* products stored under it
ProductsPerCategory(categories) ==
    [i \in 1..Len(categories) |->
        [name |-> categories[i].name,
         count |-> Cardinality({p \in catalog.products : p.category = categories[i].id})]]
Summary ==
    [categories |-> Len(seed.categories),
     brands |-> Len(seed.brands),
     products |-> seed.products_created,
     per_category |-> ProductsPerCategory(seed.categories)]

\* the summary is written and the atomic block commits
SeedSummary ==
    /\ seed.pc = "summary"
    /\ seed' = [SeedEnded("ok", seed.created) EXCEPT !.report = Summary]
    /\ UNCHANGED <<chatVars, eng, fmt, redis, catalog, admin, config, agent, processed>>

\* the command on a database whose calls end as dbs says
NextSeedOn(dbs) ==
    \/ \E clear \in BOOLEAN : SeedRun(clear)
    \/ \E db \in dbs : SeedClearProducts(db)
    \/ \E db \in dbs : SeedClearCategories(db)
    \/ \E db \in dbs : SeedClearBrands(db)
    \/ SeedAtomic
    \/ \E db \in dbs : SeedCategory(db)
    \/ \E db \in dbs : SeedBrand(db)
    \/ \E db \in dbs : SeedProduct(db)
    \/ SeedSummary
NextSeed == NextSeedOn({"ok"})

\* ------------------------------------------------- admin changelist filters
\* products/admin.py (specification SpecAdmin).  Product.rating is a float;
\* ratings are counted in tenths of a star, so 4.5 is 45.

EXCELLENT_MIN == 45
GOOD_MIN == 35
AVERAGE_MIN == 25
LOW_STOCK == 10
MaxRows == 2

\* stock and rating values around the thresholds
StockValues == {0, LOW_STOCK - 1, LOW_STOCK}
RatingValues ==
    {0, AVERAGE_MIN - 1, AVERAGE_MIN, GOOD_MIN - 1, GOOD_MIN,
     EXCELLENT_MIN - 1, EXCELLENT_MIN}

StockLookups == {"in_stock", "low_stock", "out_of_stock"}
RatingLookups == {"excellent", "good", "average", "poor", "unrated"}
NoValue == "None"

\* StockFilter.queryset; a filter that returns None leaves the queryset as it is
StockQuerysetLowInclusive(value, queryset) ==
    IF value = "in_stock" THEN {p \in queryset : p.stock > 0}
    ELSE IF value = "low_stock" THEN {p \in queryset : p.stock > 0 /\ p.stock <= LOW_STOCK}
    ELSE IF value = "out_of_stock" THEN {p \in queryset : p.stock = 0}
    ELSE queryset
StockQueryset(value, queryset) ==
    IF value = "in_stock" THEN {p \in queryset : p.stock > 0}
    ELSE IF value = "low_stock" THEN {p \in queryset : p.stock > 0 /\ p.stock < LOW_STOCK}
    ELSE IF value = "out_of_stock" THEN {p \in queryset : p.stock = 0}
    ELSE queryset

\* RatingFilter.queryset
RatingQuerysetStrict(value, queryset) ==
    IF value = "excellent" THEN {p \in queryset : p.rating > EXCELLENT_MIN}
    ELSE IF value = "good"
    THEN {p \in queryset : p.rating >= GOOD_MIN /\ p.rating < EXCELLENT_MIN}
    ELSE IF value = "average"
    THEN {p \in queryset : p.rating >= AVERAGE_MIN /\ p.rating < GOOD_MIN}
    ELSE IF value = "poor" THEN {p \in queryset : p.rating > 0 /\ p.rating < AVERAGE_MIN}
    ELSE IF value = "unrated" THEN {p \in queryset : p.rating = 0}
    ELSE queryset
RatingQueryset(value, queryset) ==
    IF value = "excellent" THEN {p \in queryset : p.rating >= EXCELLENT_MIN}
    ELSE IF value = "good"
    THEN {p \in queryset : p.rating >= GOOD_MIN /\ p.rating < EXCELLENT_MIN}
    ELSE IF value = "average"
    THEN {p \in queryset : p.rating >= AVERAGE_MIN /\ p.rating < GOOD_MIN}
    ELSE IF value = "poor" THEN {p \in queryset : p.rating > 0 /\ p.rating < AVERAGE_MIN}
    ELSE IF value = "unrated" THEN {p \in queryset : p.rating = 0}
    ELSE queryset

\* rows: the Product table (id, stock, rating); the changelist request last
\* answered: its stock_level and rating_level parameters and the rows listed
AdminIdle ==
    [rows |-> {}, stock_level |-> NoValue, rating_level |-> NoValue, listed |-> {},
     answered |-> FALSE]

\* a product is saved through the admin form (stock >= 0, 0 <= rating <= 5)
AdminSaveProduct(stock, rating) ==
    /\ Cardinality(admin.rows) < MaxRows
    /\ admin' = [AdminIdle EXCEPT
           !.rows = admin.rows \cup
               {[id |-> Cardinality(admin.rows) + 1, stock |-> stock, rating |-> rating]}]
    /\ UNCHANGED <<chatVars, eng, fmt, redis, catalog, seed, config, agent, processed>>

\* GET /admin/products/product/?stock_level=..&rating_level=..: list_filter
\* applies StockFilter, then RatingFilter
AdminChangelist(stock_level, rating_level) ==
    /\ admin' = [admin EXCEPT
           !.stock_level = stock_level, !.rating_level = rating_level,
           !.listed = RatingQueryset(rating_level, StockQueryset(stock_level, admin.rows)),
           !.answered = TRUE]
    /\ UNCHANGED <<chatVars, eng, fmt, redis, catalog, seed, config, agent, processed>>

NextAdmin ==
    \/ \E stock \in StockValues, rating \in RatingValues : AdminSaveProduct(stock, rating)
    \/ \E s \in StockLookups \cup {NoValue}, r \in RatingLookups \cup {NoValue} :
          AdminChangelist(s, r)

\* ------------------------------------------------ the configuration registry
\* constance.config is read through attribute access: every read fetches the
\* value the registry holds at that moment.  What an engine object keeps in
\* an attribute of its own is the value read when the attribute was set.

MaxEdits == 3

DEFAULT_TOP_K == 10
EDITED_TOP_K == 5

\* the registry keys the engines read, with their default and one other value
RegistryValues ==
    [LLM_PROVIDER |-> {"anthropic", "openai"},
     LLM_MODEL |-> {"claude-3-5-sonnet-latest", "gpt-4o"},
     LLM_SYSTEM_PROMPT_FOR_SQL |-> {"prompt.LLM_SYSTEM_PROMPT_FOR_SQL", "edited sql prompt"},
     LLM_SYSTEM_PROMPT_FOR_REPLY |-> {"prompt.LLM_SYSTEM_PROMPT_FOR_REPLY", "edited reply prompt"},
     LLM_SYSTEM_PROMPT_WITH_TOOLS |-> {"prompt.LLM_SYSTEM_PROMPT_WITH_TOOLS", "edited tools prompt"},
     TOP_K |-> {DEFAULT_TOP_K, EDITED_TOP_K}]
RegistryKeys == DOMAIN RegistryValues

CONSTANCE_CONFIG ==
    [LLM_PROVIDER |-> "anthropic",
     LLM_MODEL |-> "claude-3-5-sonnet-latest",
     LLM_SYSTEM_PROMPT_FOR_SQL |-> "prompt.LLM_SYSTEM_PROMPT_FOR_SQL",
     LLM_SYSTEM_PROMPT_FOR_REPLY |-> "prompt.LLM_SYSTEM_PROMPT_FOR_REPLY",
     LLM_SYSTEM_PROMPT_WITH_TOOLS |-> "prompt.LLM_SYSTEM_PROMPT_WITH_TOOLS",
     TOP_K |-> DEFAULT_TOP_K]

NotBuilt == [built |-> FALSE]
NoCustomPrompt == "None"
CustomPrompts == {NoCustomPrompt, "custom prompt"}

\* init_chat_model(model=config.LLM_MODEL, model_provider=config.LLM_PROVIDER, ...)
init_chat_model(registry) ==
    [model |-> registry.LLM_MODEL, model_provider |-> registry.LLM_PROVIDER]

ConfigIdle ==
    [registry |-> CONSTANCE_CONFIG, linear |-> NotBuilt, tools |-> NotBuilt,
     used |-> [engine |-> "none"], edits |-> 0]

ConfigUnchanged ==
    UNCHANGED <<chatVars, eng, fmt, redis, catalog, seed, admin, agent, processed>>

\* an operator saves one registry value in the admin console
ConfigEdit(key, value) ==
    /\ config.edits < MaxEdits
    /\ value # config.registry[key]
    /\ config' = [config EXCEPT !.registry[key] = value, !.edits = @ + 1]
    /\ ConfigUnchanged

\* SQLQuerySystem.__init__: self.llm = self._init_llm()
ConfigBuildLinear ==
    /\ config' = [config EXCEPT !.linear =
                    [built |-> TRUE, llm |-> init_chat_model(config.registry)]]
    /\ ConfigUnchanged

\* SQLQuerySystemTools.__init__: self.system_prompt, then _setup_llm()
ConfigBuildTools(system_prompt) ==
    /\ config' = [config EXCEPT !.tools =
                    [built |-> TRUE,
                     prompt_given |-> system_prompt # NoCustomPrompt,
                     system_prompt |-> IF system_prompt # NoCustomPrompt THEN system_prompt
                                       ELSE config.registry.LLM_SYSTEM_PROMPT_WITH_TOOLS,
                     llm |-> init_chat_model(config.registry)]]
    /\ ConfigUnchanged

\* the values one invocation of the linear engine works with: write_query and
\* generate_answer read the prompts and TOP_K from the registry and call self.llm
LinearUses(engine, registry) ==
    [engine |-> "linear",
     LLM_PROVIDER |-> engine.llm.model_provider,
     LLM_MODEL |-> engine.llm.model,
     LLM_SYSTEM_PROMPT_FOR_SQL |-> registry.LLM_SYSTEM_PROMPT_FOR_SQL,
     LLM_SYSTEM_PROMPT_FOR_REPLY |-> registry.LLM_SYSTEM_PROMPT_FOR_REPLY,
     TOP_K |-> registry.TOP_K]

\* SQLQuerySystem.query on the engine built before
ConfigLinearQuery ==
    /\ config.linear.built
    /\ config' = [config EXCEPT !.used = LinearUses(config.linear, config.registry)]
    /\ ConfigUnchanged

\* the values one invocation of the agent works with:
\* system_prompt = custom_system_prompt or self.system_prompt, and self.llm_with_tools
ToolsUses(engine, custom_system_prompt) ==
    [engine |-> "tools",
     LLM_PROVIDER |-> engine.llm.model_provider,
     LLM_MODEL |-> engine.llm.model,
     LLM_SYSTEM_PROMPT_WITH_TOOLS |-> IF custom_system_prompt # NoCustomPrompt
                                      THEN custom_system_prompt
                                      ELSE engine.system_prompt]

\* SQLQuerySystemTools.query on the agent built before
ConfigToolsQuery(custom_system_prompt) ==
    /\ config.tools.built
    /\ config' = [config EXCEPT !.used = ToolsUses(config.tools, custom_system_prompt)]
    /\ ConfigUnchanged

NextConfig ==
    \/ \E key \in RegistryKeys : \E value \in RegistryValues[key] : ConfigEdit(key, value)
    \/ ConfigBuildLinear
    \/ \E p \in CustomPrompts : ConfigBuildTools(p)
    \/ ConfigLinearQuery
    \/ \E p \in CustomPrompts : ConfigToolsQuery(p)

\* ------------------------------------------------ the tool-calling agent
\* The graph of SQLQuerySystemTools: START -> chatbot, chatbot -> tools or END
\* by tools_condition, tools -> chatbot.  The state is the message list; each
\* node's messages are appended to it (add_messages).

MaxTurns == 3
MaxCalls == 2
\* self.graph.invoke(...) is called without a config: the graph runs under
\* the default recursion limit of LangGraph, 25 steps of the graph
RECURSION_LIMIT == 25

HumanMessage == [type |-> "human", tool_calls |-> 0, status |-> "none"]
AIMessage(tool_calls) == [type |-> "ai", tool_calls |-> tool_calls, status |-> "none"]
ToolMessage(status) == [type |-> "tool", tool_calls |-> 0, status |-> status]
SystemMessage == [type |-> "system", tool_calls |-> 0, status |-> "none"]

\* messages: Annotated[list, add_messages].  The reducer merges a node's
\* update into the list by message id; the messages of this program (built
\* by the callers without an id, answered by the model, produced by the tool
\* node) all get fresh ids, so every message of the update is appended.
ReplaceMessages(left, right) == right
add_messages(left, right) == left \o right

\* the message lists a caller passes to query(): a question, or a question
\* after an earlier exchange
AgentInputs == { <<HumanMessage>>, <<HumanMessage, AIMessage(0), HumanMessage>> }

\* what the model answers in one chatbot step: a message asking for 0..MaxCalls
\* runs of the tool, or an error of the provider call
ChatbotOutcomes ==
    {[raises |-> FALSE, tool_calls |-> n] : n \in 0..MaxCalls}
    \cup {[raises |-> TRUE, tool_calls |-> 0]}

\* sql_db_query: the result of the query, or the text of the error
ToolStatuses == {"result", "error text"}

\* tools_condition: "tools" if the last message carries tool calls, else END
ToolsConditionAlwaysEnd(msgs) == "END"
tools_condition(msgs) ==
    IF msgs[Len(msgs)].type = "ai" /\ msgs[Len(msgs)].tool_calls > 0
    THEN "tools" ELSE "END"

AgentIdle ==
    [pc |-> "idle", messages |-> << >>, turns |-> 0, steps |-> 0, raised |-> FALSE,
     error |-> "none", result |-> << >>, input |-> << >>, context |-> << >>,
     prompted |-> << >>]

\* invoke raises: the query ends without a returned state
AgentRaise(error) == [agent EXCEPT !.pc = "END", !.raised = TRUE, !.error = error]
\* a node is due after the last step the limit allows
OutOfSteps == agent.steps >= RECURSION_LIMIT

AgentUnchanged ==
    UNCHANGED <<chatVars, eng, fmt, redis, catalog, seed, admin, config, processed>>

\* query(): self.graph.invoke({"messages": messages}, context=...)
AgentQuery(msgs) ==
    /\ agent.pc \in {"idle", "END"}
    /\ agent' = [AgentIdle EXCEPT !.pc = "chatbot", !.input = msgs,
                                  !.messages = add_messages(<< >>, msgs),
                                  !.context = [system_prompt |-> SystemMessage]]
    /\ AgentUnchanged

\* chatbot node: the model is called with [system_prompt] + messages, its
\* response is the update, tools_condition chooses the next node; at END
\* invoke returns the state
AgentChatbotStep(o) ==
    /\ agent.pc = "chatbot"
    /\ IF OutOfSteps
       THEN agent' = AgentRaise("GraphRecursionError")
       ELSE IF o.raises
       THEN agent' = AgentRaise("model call failed")
       ELSE LET new == add_messages(agent.messages, <<AIMessage(o.tool_calls)>>)
                next == tools_condition(new)
            IN  agent' = [agent EXCEPT !.pc = next, !.messages = new,
                                       !.prompted = <<agent.context.system_prompt>>
                                                        \o agent.messages,
                                       !.turns = @ + 1, !.steps = @ + 1,
                                       !.result = IF next = "END" THEN new ELSE << >>]
    /\ AgentUnchanged
\* the chatbot step, in runs cut after MaxTurns model calls
AgentChatbot(o) ==
    /\ agent.turns < MaxTurns
    /\ AgentChatbotStep(o)

RECURSIVE ToolMessages(_)
ToolMessages(statuses) ==
    IF statuses = << >> THEN << >>
    ELSE <<ToolMessage(statuses[1])>> \o ToolMessages(Tail(statuses))

\* tools node: one tool message per tool call of the last assistant message,
\* then back to the chatbot
AgentTools(statuses) ==
    /\ agent.pc = "tools"
    /\ Len(statuses) = agent.messages[Len(agent.messages)].tool_calls
    /\ IF OutOfSteps
       THEN agent' = AgentRaise("GraphRecursionError")
       ELSE agent' = [agent EXCEPT !.pc = "chatbot", !.steps = @ + 1,
                                  !.messages = add_messages(agent.messages,
                                                                ToolMessages(statuses))]
    /\ AgentUnchanged

NextAgent ==
    \/ \E m \in AgentInputs : AgentQuery(m)
    \/ \E o \in ChatbotOutcomes : AgentChatbot(o)
    \/ \E n \in 0..MaxCalls : \E statuses \in [1..n -> ToolStatuses] : AgentTools(statuses)

\* the agent run to the end of every query, with a model that asks for at
\* most one run of the tool per turn (specification SpecLoop)
LoopOutcomes == {o \in ChatbotOutcomes : o.tool_calls <= 1}
NextLoop ==
    \/ \E m \in AgentInputs : AgentQuery(m)
    \/ \E o \in LoopOutcomes : AgentChatbotStep(o)
    \/ \E status \in ToolStatuses : AgentTools(<<status>>)

\* ------------------------------------------------------ ProcessedMessages
\* chatapi/services/llm_langgraph_tools.py 163-302 (specification SpecProcessed)

MaxList == 3

\* A message object: its class, its content attribute (a text, a list of
\* content blocks, or no such attribute) and its tool_calls attribute (a list
\* of calls, or a value that cannot be iterated).
TextContent(text) == [kind |-> "str", text |-> text, items |-> << >>]
ListContent(items) == [kind |-> "list", text |-> "", items |-> items]
NoContent == [kind |-> "missing", text |-> "", items |-> << >>]
\* content blocks of an assistant message
TextBlock == [type |-> "text", has_input |-> FALSE, query |-> ""]
ToolUseBlock(query) == [type |-> "tool_use", has_input |-> TRUE, query |-> query]
\* message.tool_calls: the calls are dicts {name, args, id}
ToolCalls(queries) == [iterable |-> TRUE, calls |-> queries]
BrokenToolCalls == [iterable |-> FALSE, calls |-> << >>]
Message(class, content, tool_calls) ==
    [class |-> class, content |-> content, tool_calls |-> tool_calls]

QueryA == "SELECT name FROM products_product"
QueryB == "SELECT COUNT(*) FROM products_brand"
QueryC == "SELECT 1"
\* the messages a processor is given
HumanAsks == Message("human", TextContent("cheapest phone?"), ToolCalls(<< >>))
AiRunsA == Message("ai", ListContent(<<TextBlock, ToolUseBlock(QueryA)>>), ToolCalls(<<QueryA>>))
AiRunsB == Message("ai", ListContent(<<ToolUseBlock(QueryB)>>), ToolCalls(<<QueryB>>))
AiAnswers == Message("ai", TextContent("The cheapest phone is ..."), ToolCalls(<< >>))
ToolResult == Message("tool", TextContent("[('iPhone 15 Pro',)]"), ToolCalls(<< >>))
\* malformed: an assistant message without a content attribute, and one whose
\* tool_calls is not a list
AiNoContent == Message("ai", NoContent, ToolCalls(<< >>))
AiBrokenCalls == Message("ai", ListContent(<<ToolUseBlock(QueryC)>>), BrokenToolCalls)
WellFormed == {HumanAsks, AiRunsA, AiRunsB, AiAnswers, ToolResult}
Malformed == {AiNoContent, AiBrokenCalls}

RECURSIVE ListsUpTo(_, _)
ListsUpTo(S, n) ==
    IF n = 0 THEN {<< >>}
    ELSE LET shorter == ListsUpTo(S, n - 1)
         IN  shorter \cup {Append(l, m) : l \in shorter, m \in S}
\* the state dictionaries handed to process_messages
ProcessorInputs ==
    {[messages |-> l] : l \in ListsUpTo(WellFormed \cup Malformed, MaxList)} \cup { << >> }

\* the queries of the content blocks: dict items with an 'input' dict that
\* has a 'query'
RECURSIVE BlockQueries(_)
BlockQueries(items) ==
    IF items = << >> THEN << >>
    ELSE (IF items[1].has_input THEN <<items[1].query>> ELSE << >>)
            \o BlockQueries(Tail(items))

\* One turn of the loop of _extract_sql_queries: the queries the message adds
\* before the turn ends, and whether the turn raised.  A tool call is a dict
\* and has no attribute 'args', so the tool_calls branch adds nothing.
ExtractTurn(message) ==
    IF message.class # "ai" \/ message.content.kind = "missing"
    THEN [raised |-> FALSE, queries |-> << >>]
    ELSE LET from_content == IF message.content.kind = "list"
                             THEN BlockQueries(message.content.items) ELSE << >>
         IN  IF ~message.tool_calls.iterable
             THEN [raised |-> TRUE, queries |-> from_content]
             ELSE [raised |-> FALSE, queries |-> from_content]

\* The loop runs inside one try: the first turn that raises ends it, and the
\* list collected so far is returned.
RECURSIVE ExtractLoop(_, _)
ExtractLoop(msgs, sql_queries) ==
    IF msgs = << >> THEN sql_queries
    ELSE LET turn == ExtractTurn(msgs[1])
         IN  IF turn.raised THEN sql_queries \o turn.queries
             ELSE ExtractLoop(Tail(msgs), sql_queries \o turn.queries)

extract_sql_queries(state) ==
    IF state = << >> \/ "messages" \notin DOMAIN state THEN << >>
    ELSE ExtractLoop(state.messages, << >>)

\* _get_messages_by_type: message.content of every message of the class; the
\* loop is inside one try, and a message without content ends it
RECURSIVE FilterLoop(_, _, _)
FilterLoop(msgs, class, filtered_messages) ==
    IF msgs = << >> THEN filtered_messages
    ELSE IF msgs[1].class # class THEN FilterLoop(Tail(msgs), class, filtered_messages)
    ELSE IF msgs[1].content.kind = "missing" THEN filtered_messages
    ELSE FilterLoop(Tail(msgs), class, Append(filtered_messages, msgs[1].content))

get_messages_by_type(state, class) ==
    IF state = << >> \/ "messages" \notin DOMAIN state THEN << >>
    ELSE FilterLoop(state.messages, class, << >>)

ProcessedIdle ==
    [pc |-> "new", messages |-> << >>, sql_queries |-> << >>, human_messages |-> << >>,
     ai_messages |-> << >>, system_messages |-> << >>, tool_messages |-> << >>,
     summary |-> << >>]

\* process_messages(messages): self.messages = messages; self._process_all()
ProcessMessages(state) ==
    /\ IF state = << >>
       THEN processed' = [ProcessedIdle EXCEPT !.pc = "processed"]
       ELSE processed' =
              [pc |-> "processed", messages |-> state,
               sql_queries |-> extract_sql_queries(state),
               human_messages |-> get_messages_by_type(state, "human"),
               ai_messages |-> get_messages_by_type(state, "ai"),
               system_messages |-> get_messages_by_type(state, "system"),
               tool_messages |-> get_messages_by_type(state, "tool"),
               summary |-> << >>]
    /\ UNCHANGED <<chatVars, eng, fmt, redis, catalog, seed, admin, config, agent>>

\* get_summary()
GetSummary ==
    /\ processed.pc = "processed"
    /\ processed.summary = << >>
    /\ processed' = [processed EXCEPT !.summary =
          [total_messages |-> IF processed.messages = << >> THEN 0
                              ELSE Len(processed.messages.messages),
           sql_queries_count |-> Len(processed.sql_queries),
           human_messages_count |-> Len(processed.human_messages),
           ai_messages_count |-> Len(processed.ai_messages),
           system_messages_count |-> Len(processed.system_messages),
           sql_queries |-> processed.sql_queries]]
    /\ UNCHANGED <<chatVars, eng, fmt, redis, catalog, seed, admin, config, agent>>

NextProcessed ==
    \/ \E state \in ProcessorInputs : ProcessMessages(state)
    \/ GetSummary

\* ---- the other components at rest

FmtIdle == FmtStart("user_first")
RedisIdle == RedisStart


InitChat ==
    /\ sessions = << >>
    /\ nextSid = 1
    /\ messages = << >>
    /\ nextMid = 1
    /\ reqs = [r \in Reqs |-> ReqIdle]
    /\ resp = NoResp

Init ==
    /\ InitChat
    /\ eng = EngIdle
    /\ fmt = FmtIdle
    /\ redis = RedisIdle
    /\ catalog = CatalogEmpty
    /\ seed = SeedIdle
    /\ admin = AdminIdle
    /\ config = ConfigIdle
    /\ agent = AgentIdle
    /\ processed = ProcessedIdle

\* the API as its clients may call it: callers, process bodies, add-message
\* bodies, titles, engine runs and database outcomes are drawn from the sets given
NextApi(callers, bodies, add_bodies, titles, runs, dbs) ==
    \/ \E r \in ApiReqs, engine_built \in BOOLEAN : ProcessBegin(r, engine_built)
    \/ \E r \in ApiReqs, u \in callers, data \in bodies : ProcessPost(r, u, data)
    \/ \E r \in ApiReqs : ProcessResolve(r)
    \/ \E r \in ApiReqs : ProcessHistory(r)
    \/ \E r \in ApiReqs, db \in dbs : ProcessSaveUser(r, db)
    \/ \E r \in ApiReqs, o \in runs : ProcessLLM(r, o)
    \/ \E r \in ApiReqs, db \in dbs : ProcessSaveAssistant(r, db)
    \/ \E r \in ApiReqs, db \in dbs : ProcessTitle(r, db)
    \/ \E u \in callers : HealthCheck(u)
    \/ \E u \in callers : ListChats(u)
    \/ \E u \in callers, title \in titles : CreateChat(u, title)
    \/ \E u \in callers, sid \in Sids : GetDetail(u, sid)
    \/ \E u \in callers, sid \in Sids, data \in add_bodies : AddMessage(u, sid, data)
    \/ \E u \in callers, sid \in Sids, title \in titles \ {Empty} : UpdateTitle(u, sid, title)
    \/ \E u \in callers, sid \in Sids : DeleteChat(u, sid)

\* authenticated callers sending well-formed bodies to a database that works
Next == NextApi(Users, ValidProcessBodies(ProcessTexts), ValidAddBodies, Titles, ApiRuns, {"ok"})

Spec == Init /\ [][Next]_vars

InitEngine ==
    /\ InitChat
    /\ eng = EngIdle
    /\ fmt = FmtIdle
    /\ redis = RedisIdle
    /\ catalog = CatalogEmpty
    /\ seed = SeedIdle
    /\ admin = AdminIdle
    /\ config = ConfigIdle
    /\ agent = AgentIdle
    /\ processed = ProcessedIdle

SpecEngine == InitEngine /\ [][NextEngine]_vars

\* the engine on a database that holds a session with one message and a
\* catalog with one product
InitSql ==
    /\ sessions = (1 :> NewSession("alice", Empty))
    /\ nextSid = 2
    /\ messages = << [id |-> 1, session |-> 1, message_type |-> "user", content |-> Msg50,
                     generated_sql |-> Empty, sql_result |-> Empty] >>
    /\ nextMid = 2
    /\ reqs = [r \in Reqs |-> ReqIdle]
    /\ resp = NoResp
    /\ eng = EngIdle
    /\ fmt = FmtIdle
    /\ redis = RedisIdle
    /\ catalog = PriorPartial
    /\ seed = SeedIdle
    /\ admin = AdminIdle
    /\ config = ConfigIdle
    /\ agent = AgentIdle
    /\ processed = ProcessedIdle
SpecSql == InitSql /\ [][NextEngine]_vars

InitFormat ==
    /\ sessions = (FmtSid :> NewSession("alice", Empty))
    /\ nextSid = FmtSid + 1
    /\ messages = << >>
    /\ nextMid = 1
    /\ reqs = [r \in Reqs |-> ReqIdle]
    /\ resp = NoResp
    /\ eng = EngIdle
    /\ fmt \in {FmtStart(p) : p \in FmtPatterns}
    /\ redis = RedisIdle
    /\ catalog = CatalogEmpty
    /\ seed = SeedIdle
    /\ admin = AdminIdle
    /\ config = ConfigIdle
    /\ agent = AgentIdle
    /\ processed = ProcessedIdle

SpecFormat == InitFormat /\ [][NextFormat]_vars

InitRedis ==
    /\ InitChat
    /\ eng = EngIdle
    /\ fmt = FmtIdle
    /\ redis = RedisStart
    /\ catalog = CatalogEmpty
    /\ seed = SeedIdle
    /\ admin = AdminIdle
    /\ config = ConfigIdle
    /\ agent = AgentIdle
    /\ processed = ProcessedIdle

SpecRedis == InitRedis /\ [][NextRedis]_vars

InitSeed ==
    /\ InitChat
    /\ eng = EngIdle
    /\ fmt = FmtIdle
    /\ redis = RedisIdle
    /\ catalog \in PriorCatalogs
    /\ seed = SeedIdle
    /\ admin = AdminIdle
    /\ config = ConfigIdle
    /\ agent = AgentIdle
    /\ processed = ProcessedIdle

SpecSeed == InitSeed /\ [][NextSeed]_vars
\* the command on a database whose calls may fail
SpecSeedFail == InitSeed /\ [][NextSeedOn(DbOutcomes)]_vars

InitAdmin ==
    /\ InitChat
    /\ eng = EngIdle
    /\ fmt = FmtIdle
    /\ redis = RedisIdle
    /\ catalog = CatalogEmpty
    /\ seed = SeedIdle
    /\ admin = AdminIdle
    /\ config = ConfigIdle
    /\ agent = AgentIdle
    /\ processed = ProcessedIdle

SpecAdmin == InitAdmin /\ [][NextAdmin]_vars

\* every caller, with or without credentials, sending any body
AuthRuns == {[raises |-> FALSE, run |-> OkRun]}
AuthTitles == Titles \ {Empty}
NextAuth == NextApi(Clients, ValidProcessBodies({Msg50}) \cup InvalidProcessBodies, AddBodies,
                    AuthTitles, AuthRuns, {"ok"})
SpecAuth == Init /\ [][NextAuth]_vars

SpecConfig == Init /\ [][NextConfig]_vars

SpecAgent == Init /\ [][NextAgent]_vars
SpecLoop == Init /\ [][NextLoop]_vars
SpecProcessed == Init /\ [][NextProcessed]_vars

\* authenticated callers and a database whose writes may fail
NextStore == NextApi(Users, ValidProcessBodies({Msg50}), ValidAddBodies, AuthTitles, AuthRuns, DbOutcomes)
SpecStore == Init /\ [][NextStore]_vars

\* the same, with a model that may also answer a text the database driver
\* cannot encode
NextKinds == NextApi(Users, ValidProcessBodies({Msg50}), ValidAddBodies, AuthTitles,
                     AuthRuns \cup {[raises |-> FALSE, run |-> SurrogateRun]}, DbOutcomes)
SpecKinds == Init /\ [][NextKinds]_vars

\* two process-message requests of one user on one session she owns, each
\* worker handling one request; the engine answers the first and fails for
\* the second
RaceSid == CHOOSE s \in Sids : \A t \in Sids : s <= t
RaceBody(r) == [message |-> IF r = 1 THEN Msg50 ELSE Msg51, chat_id |-> RaceSid]
RaceRun(r) == [raises |-> r # 1, run |-> OkRun]
InitRace ==
    /\ sessions = (RaceSid :> NewSession("alice", <<"P","l","a","n","s">>))
    /\ nextSid = RaceSid + 1
    /\ messages = << >>
    /\ nextMid = 1
    /\ reqs = [r \in Reqs |-> ReqIdle]
    /\ resp = NoResp
    /\ eng = EngIdle
    /\ fmt = FmtIdle
    /\ redis = RedisIdle
    /\ catalog = CatalogEmpty
    /\ seed = SeedIdle
    /\ admin = AdminIdle
    /\ config = ConfigIdle
    /\ agent = AgentIdle
    /\ processed = ProcessedIdle
NextRace ==
    \/ \E r \in Reqs : reqs[r].pc = "idle" /\ ProcessBegin(r, TRUE)
    \/ \E r \in Reqs : ProcessPost(r, "alice", RaceBody(r))
    \/ \E r \in Reqs : ProcessResolve(r)
    \/ \E r \in Reqs : ProcessHistory(r)
    \/ \E r \in Reqs : ProcessSaveUser(r, "ok")
    \/ \E r \in Reqs : ProcessLLM(r, RaceRun(r))
    \/ \E r \in Reqs : ProcessSaveAssistant(r, "ok")
    \/ \E r \in Reqs : ProcessTitle(r, "ok")
SpecRace == InitRace /\ [][NextRace]_vars

\* one worker handling the requests of one user on her session one after the
\* other, nobody else writing
SoloBodies == {[message |-> m, chat_id |-> RaceSid] : m \in ProcessTexts}
NextSolo ==
    \/ ProcessBegin(1, TRUE)
    \/ \E data \in SoloBodies : ProcessPost(1, "alice", data)
    \/ ProcessResolve(1)
    \/ ProcessHistory(1)
    \/ ProcessSaveUser(1, "ok")
    \/ \E o \in ApiRuns : ProcessLLM(1, o)
    \/ ProcessSaveAssistant(1, "ok")
    \/ ProcessTitle(1, "ok")
SpecSolo == InitRace /\ [][NextSolo]_vars

\* ------------------------------------------------------------ chat claims

Has(t, e) == \E i \in 1..Len(t) : t[i] = e
Pos(t, e) == CHOOSE i \in 1..Len(t) : t[i] = e
RowOf(mid) == CHOOSE i \in 1..Len(messages) : messages[i].id = mid
Stored(mid) == \E i \in 1..Len(messages) : messages[i].id = mid

\* C1: within one process-message request the user message is stored before
\* the engine is invoked, the assistant message is stored only after the
\* engine call has ended (returned, or raised and been absorbed), and the
\* request's user row precedes its assistant row in the table.
C1_UserThenEngineThenAssistant ==
    \A r \in Reqs :
        LET q == reqs[r]
            t == q.trace
        IN  /\ Has(t, "engine_invoked") =>
                  /\ Has(t, "user_saved")
                  /\ Pos(t, "user_saved") < Pos(t, "engine_invoked")
            /\ Has(t, "assistant_saved") =>
                  /\ Has(t, "engine_returned") \/ Has(t, "engine_raised")
                  /\ \A i \in 1..Len(t) :
                        t[i] \in {"engine_invoked", "engine_returned", "engine_raised"}
                            => i < Pos(t, "assistant_saved")
            /\ q.assistant_message # 0 =>
                  /\ q.user_message # 0
                  /\ q.user_message < q.assistant_message
                  /\ (Stored(q.user_message) /\ Stored(q.assistant_message))
                        => RowOf(q.user_message) < RowOf(q.assistant_message)
C1_Witness ==
    \E r \in Reqs :
        /\ Has(reqs[r].trace, "assistant_saved")
        /\ Stored(reqs[r].user_message)
        /\ Stored(reqs[r].assistant_message)

\* C2: a call that names a session which exists but belongs to another user
\* is answered not-found, returns no data and leaves the session and message
\* tables as they were (get detail, add message, update title, delete
\* session, and the session lookup of process-message, which ends the request).
Foreign(u, sid) == sid \in DOMAIN sessions /\ sessions[sid].user # u
NotFoundNoData == resp'.status = 404 /\ resp'.data = << >>
C2_ForeignSessionIsNotFound ==
    [][ \A u \in Users, sid \in Sids :
          Foreign(u, sid) =>
            /\ GetDetail(u, sid) => NotFoundNoData /\ UNCHANGED <<sessions, messages>>
            /\ \A c \in AddTexts :
                 AddMessage(u, sid, [content |-> c]) => NotFoundNoData /\ UNCHANGED <<sessions, messages>>
            /\ \A t \in Titles :
                 UpdateTitle(u, sid, t) => NotFoundNoData /\ UNCHANGED <<sessions, messages>>
            /\ DeleteChat(u, sid) => NotFoundNoData /\ UNCHANGED <<sessions, messages>>
            /\ \A r \in Reqs :
                 (reqs[r].user = u /\ reqs[r].chat_id = sid /\ ProcessResolve(r)) =>
                    /\ reqs'[r].pc = "done"
                    /\ reqs'[r].status = 404
                    /\ reqs'[r].body = [error |-> <<"Chat session not found">>]
                    /\ UNCHANGED <<sessions, messages>>
      ]_vars
C2_Witness ==
    /\ resp.status = 404
    /\ resp.op = "delete"
    /\ Foreign(resp.user, resp.sid)
    /\ SessionRows(resp.sid) # << >>

\* C3: no stored message refers to a session that no longer exists, whatever
\* the interleaving of create-session, add-message, process-message and
\* delete-session.
C3_NoOrphanMessages ==
    \A i \in 1..Len(messages) : messages[i].session \in DOMAIN sessions
C3_Witness ==
    /\ resp.op = "delete"
    /\ resp.status = 200
    /\ resp.sid \notin DOMAIN sessions
    /\ nextMid > 2
    /\ \E r \in Reqs : reqs[r].session = resp.sid /\ reqs[r].user_message # 0

\* C5: a finished process-message request answers with an HTTP error only
\* when resolving the session or persisting failed; every failure of the
\* LLM/SQL path is answered 200 with {chat_id, answer, created_new_chat}.
\* (A request refused before the handler's logic, 401 or 400, never reaches
\* the LLM/SQL path.)
ResolutionOrPersistenceErrors ==
    { [error |-> <<"Chat session not found">>],
      [error |-> <<"Error processing message: ", "FOREIGN KEY constraint failed">>],
      [error |-> <<"Error processing message: ", DB_ERROR>>],
      [error |-> <<"Error processing message: ",
                   "Save with update_fields did not affect any rows.">>] }
C5_OnlyResolutionAndPersistenceErrors ==
    \A r \in Reqs :
        reqs[r].pc = "done" =>
            \/ /\ reqs[r].status = 200
               /\ DOMAIN reqs[r].body = {"chat_id", "answer", "created_new_chat"}
            \/ reqs[r].body \in ResolutionOrPersistenceErrors
            \/ reqs[r].status \in {400, 401}

\* C7: when process-message has created the session, the title it stores is
\* the first message cut to 50 characters plus "..." if the message is longer
\* than 50 characters, and the whole message otherwise.
C7_TitleFromFirstMessage ==
    [][ \A r \in Reqs :
          ( /\ reqs[r].created_new
            /\ reqs[r].session \in DOMAIN sessions
            /\ ProcessTitle(r, "ok") ) =>
              LET m == reqs[r].message
                  title == sessions'[reqs[r].session].title
              IN  IF Len(m) > 50
                  THEN /\ Len(title) = 53
                       /\ SubSeq(title, 1, 50) = SubSeq(m, 1, 50)
                       /\ SubSeq(title, 51, 53) = <<".", ".", ".">>
                  ELSE title = m
      ]_vars
C7_Witness ==
    \E s \in DOMAIN sessions, r \in Reqs :
        /\ reqs[r].pc = "done"
        /\ reqs[r].status = 200
        /\ reqs[r].body.chat_id = s
        /\ reqs[r].body.created_new_chat
        /\ Len(sessions[s].title) = 53

\* ---------------------------------------------------------- engine claims

EngRunning == eng.pc \in {"write_query", "execute_query", "generate_answer", "return"}
ExecuteStageFailed(state) ==
    /\ "sql_result" \in DOMAIN state
    /\ Len(state.sql_result) >= Len(EXECUTE_ERROR_PREFIX)
    /\ Take(state.sql_result, Len(EXECUTE_ERROR_PREFIX)) = EXECUTE_ERROR_PREFIX

\* C4: query(question) never raises and never gets stuck, whatever stages
\* fail; the state it returns has the four fields question, query, sql_result
\* and answer, and its answer is not empty (also when execute_query failed).
C4_QueryAlwaysCompletes ==
    /\ ~eng.raised
    /\ EngRunning => ENABLED (EngWriteQuery \/ EngExecuteQuery \/ EngGenerateAnswer \/ EngReturn)
    /\ (eng.pc = "done" /\ ~eng.stream) =>
          /\ DOMAIN eng.result = StateKeys
          /\ eng.result.question \in Questions
          /\ eng.result.answer # Empty
C4_Witness ==
    /\ eng.pc = "done"
    /\ ~eng.stream
    /\ eng.result.query = FALLBACK_QUERY
    /\ ExecuteStageFailed(eng.result)
    /\ eng.result.answer = ANSWER_APOLOGY

\* C14: query(question, stream=True) returns the final state that
\* query(question, stream=False) returns for the same stage outcomes: the
\* per-stage updates are seen in stage order and the value returned has the
\* four fields question, query, sql_result and answer.
C14_StreamReturnsFinalState ==
    (eng.pc = "done" /\ eng.stream /\ ~eng.raised) =>
          /\ eng.log = GraphNodes
          /\ eng.result = Query(eng.state.question, FALSE,
                [wq |-> [raises |-> FALSE, out |-> [query |-> eng.state.query]],
                 eq |-> [raises |-> FALSE, err |-> Empty, out |-> eng.state.sql_result],
                 ga |-> [raises |-> FALSE, content |-> eng.state.answer]]).value
          /\ DOMAIN eng.result = StateKeys
\* what the streamed call does return: the update of the last stage under
\* that stage's name, after the three updates were seen in stage order
C14_StreamReturnsLastUpdate ==
    (eng.pc = "done" /\ eng.stream /\ ~eng.raised) =>
          /\ eng.log = GraphNodes
          /\ DOMAIN eng.result = {"generate_answer"}
          /\ eng.result.generate_answer = [answer |-> eng.state.answer]
          /\ DOMAIN eng.state = StateKeys
C14_Witness ==
    /\ eng.pc = "done"
    /\ eng.stream
    /\ eng.log = GraphNodes
    /\ eng.result # << >>

\* ---------------------------------------------------------- format claims

RECURSIVE LinesFrom(_, _)
\* the lines of rows[i..], each followed by a line break
LinesFrom(rows, i) ==
    IF i > Len(rows) THEN Empty
    ELSE (IF rows[i].message_type = "user" THEN <<"H","u","m","a","n",":"," ">> ELSE <<"A","s","s","i","s","t","a","n","t",":"," ">>)
         \o rows[i].content \o NL \o LinesFrom(rows, i + 1)

\* the text the engine is to receive for the stored rows and the raw message
ExpectedInput(rows, message) ==
    IF Len(rows) = 0 THEN message
    ELSE <<"P","r","e","v","i","o","u","s"," ","c","o","n","v","e","r","s","a","t","i","o","n"," ","c","o","n","t","e","x","t",":">> \o NL
         \o LinesFrom(rows, Max(1, Len(rows) - 19))
         \o NL \o <<"C","u","r","r","e","n","t"," ","q","u","e","s","t","i","o","n",":">> \o NL \o message

\* C6: the text sent to the engine is the raw message when the session has no
\* prior message; otherwise the header, one "Human:"/"Assistant:" line for
\* each of the last 20 prior messages in chronological order, a blank line,
\* "Current question:" and the raw message.
C6_FormattedInput ==
    fmt.pc = "formatted" => fmt.out = ExpectedInput(SessionRows(FmtSid), fmt.message)
C6_Witness ==
    /\ fmt.pc = "formatted"
    /\ Len(SessionRows(FmtSid)) > HISTORY_WINDOW
    /\ fmt.pattern = "assistant_first"
    /\ fmt.out # fmt.message

\* ----------------------------------------------------------- cache claims

\* the latest call to finish completed, ran with no other call in flight, and
\* none is in flight now
AppendCompleted ==
    /\ redis.last.how = "completed"
    /\ redis.last.alone
    /\ \A c \in Callers : ~InFlight(c)

\* C8: after a completed append_message of a sequence of appends the list
\* holds at most 10 values, they are the latest values pushed, latest first
\* (the latest 10 of all when the key never expired in between), and from the
\* 11th append on the first value pushed is not in the list.
C8_KeepsTenMostRecent ==
    AppendCompleted =>
        /\ Len(redis.list) <= 10
        /\ \A i \in 1..Len(redis.list) :
              redis.list[i] = redis.pushed[Len(redis.pushed) + 1 - i]
        /\ ~redis.lapsed => Len(redis.list) = Min(10, Len(redis.pushed))
        /\ Len(redis.pushed) >= 11 =>
              \A i \in 1..Len(redis.list) : redis.list[i] # redis.pushed[1]
C8_Witness ==
    /\ AppendCompleted
    /\ ~redis.lapsed
    /\ Len(redis.pushed) = 11
    /\ Len(redis.list) = 10

\* ------------------------------------------------------------ seed claims

NamesAndSlugs(rows) == {[name |-> r.name, slug |-> r.slug] : r \in rows}
NoDuplicates(cat) ==
    /\ Cardinality({r.slug : r \in cat.categories}) = Cardinality(cat.categories)
    /\ Cardinality({r.slug : r \in cat.brands}) = Cardinality(cat.brands)
    /\ Cardinality({p.sku : p \in cat.products}) = Cardinality(cat.products)
Counts(cat) ==
    <<Cardinality(cat.categories), Cardinality(cat.brands), Cardinality(cat.products)>>

\* the catalog holds the fixture and nothing else
IsFixture(cat) ==
    /\ Counts(cat) = <<3, 11, 30>>
    /\ NoDuplicates(cat)
    /\ NamesAndSlugs(cat.categories) = Range(categories_data)
    /\ NamesAndSlugs(cat.brands) = Range(brands_data)
    /\ \A d \in Range(products_data) : \E p \in cat.products :
          /\ p.sku = d.sku /\ p.name = d.name
          /\ \E b \in cat.brands : b.id = p.brand /\ b.name = d.brand
          /\ \E c \in cat.categories : c.id = p.category /\ c.name = d.category
IsEmpty(cat) == Counts(cat) = <<0, 0, 0>>

\* C9: a run without --clear on an empty catalog succeeds and leaves exactly
\* the 3 categories, 11 brands and 30 products of the fixture, without
\* duplicate slugs or SKUs; a run without --clear on that catalog succeeds,
\* creates no row and leaves the catalog as it found it.
C9_SeedIdempotent ==
    (seed.pc = "done" /\ ~seed.clear /\ (IsEmpty(seed.start) \/ IsFixture(seed.start))) =>
        /\ seed.outcome = "ok"
        /\ IsFixture(catalog)
        /\ IsEmpty(seed.start) => seed.created = 44
        /\ IsFixture(seed.start) => (seed.created = 0 /\ catalog = seed.start)
C9_Witness ==
    /\ seed.pc = "done"
    /\ Len(seed.log) = 2
    /\ seed.log[1] = [clear |-> FALSE, outcome |-> "ok", created |-> 44]
    /\ seed.log[2] = [clear |-> FALSE, outcome |-> "ok", created |-> 0]
    /\ IsFixture(catalog)

\* C10: a run with --clear succeeds and leaves exactly the 3 categories, 11
\* brands and 30 products of the fixture, whatever the catalog held before.
C10_ClearThenSeed ==
    (seed.pc = "done" /\ seed.clear) =>
        /\ seed.outcome = "ok"
        /\ Counts(catalog) = <<3, 11, 30>>
        /\ IsFixture(catalog)
C10_Witness ==
    /\ seed.pc = "done"
    /\ seed.clear
    /\ seed.start.products # {}
    /\ ~IsFixture(seed.start)
    /\ Counts(catalog) = <<3, 11, 30>>

\* ----------------------------------------------------------- admin claims

\* the rows a rating_level value selects out of one product of rating x
RatingSelects(value, x) == RatingQueryset(value, {[id |-> 1, stock |-> 1, rating |-> x]}) # {}
StockSelects(value, n) == StockQueryset(value, {[id |-> 1, stock |-> n, rating |-> 0]}) # {}

\* C11: 4.5 is "excellent"; 3.5 is "good" and not "excellent"; 2.5 is
\* "average" and not "good"; 0 is "unrated" and not "poor"; every rating from
\* 0 to 5 is selected by exactly one of the five rating levels, and a listing
\* filtered by rating level shows exactly the stored products of that level.
C11_RatingLevels ==
    /\ RatingSelects("excellent", 45)
    /\ RatingSelects("good", 35) /\ ~RatingSelects("excellent", 35)
    /\ RatingSelects("average", 25) /\ ~RatingSelects("good", 25)
    /\ RatingSelects("unrated", 0) /\ ~RatingSelects("poor", 0)
    /\ \A x \in 0..50 : Cardinality({v \in RatingLookups : RatingSelects(v, x)}) = 1
    /\ (admin.answered /\ admin.stock_level = NoValue /\ admin.rating_level # NoValue) =>
          admin.listed =
              {p \in admin.rows :
                  admin.rating_level =
                      IF p.rating >= 45 THEN "excellent"
                      ELSE IF p.rating >= 35 THEN "good"
                      ELSE IF p.rating >= 25 THEN "average"
                      ELSE IF p.rating > 0 THEN "poor"
                      ELSE "unrated"}
C11_Witness ==
    /\ admin.answered
    /\ admin.stock_level = NoValue
    /\ admin.rating_level = "excellent"
    /\ \E p \in admin.listed : p.rating = 45
    /\ \E p \in admin.rows \ admin.listed : p.rating = 44

\* C12: in_stock selects exactly stock > 0, low_stock exactly 0 < stock < 10,
\* out_of_stock exactly stock = 0: stock 9 is low, stock 10 is neither low
\* nor out of stock, stock 0 is out of stock; and a listing filtered by stock
\* level shows exactly the stored products of that level.
C12_StockLevels ==
    /\ StockSelects("low_stock", 9)
    /\ ~StockSelects("low_stock", 10) /\ ~StockSelects("out_of_stock", 10)
    /\ StockSelects("out_of_stock", 0)
    /\ \A n \in 0..20 :
          /\ StockSelects("in_stock", n) <=> n > 0
          /\ StockSelects("low_stock", n) <=> (0 < n /\ n < 10)
          /\ StockSelects("out_of_stock", n) <=> n = 0
    /\ (admin.answered /\ admin.rating_level = NoValue /\ admin.stock_level # NoValue) =>
          admin.listed =
              {p \in admin.rows :
                  \/ admin.stock_level = "in_stock" /\ p.stock > 0
                  \/ admin.stock_level = "low_stock" /\ p.stock > 0 /\ p.stock < 10
                  \/ admin.stock_level = "out_of_stock" /\ p.stock = 0}
C12_Witness ==
    /\ admin.answered
    /\ admin.rating_level = NoValue
    /\ admin.stock_level = "low_stock"
    /\ \E p \in admin.listed : p.stock = 9
    /\ \E p \in admin.rows \ admin.listed : p.stock = 10

\* ------------------------------------------------------------ API claims

Tables == <<sessions, nextSid, messages, nextMid>>

\* the bodies the claim names: no message text, a chat id that is not a
\* UUID, no content
ProcessBodyFails(data) ==
    \/ "message" \notin DOMAIN data
    \/ data.message = Empty
    \/ "chat_id" \in DOMAIN data /\ data.chat_id = NotUuid
AddBodyFails(data) == "content" \notin DOMAIN data

\* C13: a request of an authenticated caller whose body fails validation
\* (no message text, a chat id that is not a UUID, no content for
\* add-message) is answered 400 at once: the request is over, no session or
\* message is created or changed and the engine has not been invoked.
C13_InvalidBodyRejected ==
    [][ /\ \A r \in Reqs, u \in Users, data \in ProcessBodies :
            (ProcessBodyFails(data) /\ ProcessPost(r, u, data)) =>
                /\ reqs'[r].pc = "done"
                /\ reqs'[r].status = 400
                /\ DOMAIN reqs'[r].body # {}
                /\ ~Has(reqs'[r].trace, "engine_invoked")
                /\ UNCHANGED <<Tables, eng>>
        /\ \A u \in Users, sid \in Sids, data \in AddBodies :
            (AddBodyFails(data) /\ AddMessage(u, sid, data)) =>
                /\ resp'.status = 400
                /\ DOMAIN resp'.data # {}
                /\ UNCHANGED <<Tables, eng, reqs>>
      ]_vars
C13_Witness ==
    /\ resp.op = "add_message"
    /\ resp.status = 400
    /\ resp.sid \in DOMAIN sessions
    /\ \E r \in Reqs :
        /\ reqs[r].pc = "done"
        /\ reqs[r].status = 400
        /\ "chat_id" \in DOMAIN reqs[r].body

\* C17: a request without credentials is answered 401 on every route but the
\* health check and changes no stored data; the health check answers 200
\* with {"status": "healthy"} to a caller without credentials.
Unauthorized == resp'.status = 401 /\ resp'.data = NOT_AUTHENTICATED /\ UNCHANGED Tables
C17_AuthenticationRequired ==
    [][ /\ \A r \in Reqs, data \in ProcessBodies :
            ProcessPost(r, Anonymous, data) =>
                /\ reqs'[r].pc = "done"
                /\ reqs'[r].status = 401
                /\ UNCHANGED Tables
        /\ ListChats(Anonymous) => Unauthorized
        /\ \A t \in Titles : CreateChat(Anonymous, t) => Unauthorized
        /\ \A sid \in Sids :
            /\ GetDetail(Anonymous, sid) => Unauthorized
            /\ \A data \in AddBodies : AddMessage(Anonymous, sid, data) => Unauthorized
            /\ \A t \in Titles : UpdateTitle(Anonymous, sid, t) => Unauthorized
            /\ DeleteChat(Anonymous, sid) => Unauthorized
        /\ HealthCheck(Anonymous) =>
            /\ resp'.status = 200
            /\ resp'.data = [status |-> "healthy"]
            /\ UNCHANGED Tables
      ]_vars
C17_Witness ==
    /\ resp.op = "delete"
    /\ resp.user = Anonymous
    /\ resp.status = 401
    /\ resp.sid \in DOMAIN sessions
    /\ SessionRows(resp.sid) # << >>
    /\ \E r \in Reqs : reqs[r].pc = "done" /\ reqs[r].status = 401

\* ------------------------------------------------------------ registry claims

UsesCurrent(keys) == \A k \in keys : config'.used[k] = config.registry[k]

\* C15: every invocation of an engine built earlier (linear engine or
\* tool-calling agent, no prompt given to the constructor or the call) works with the provider, model,
\* prompts and TOP_K the registry holds at the time of the call.
C15_RegistryReadAtCallTime ==
    [][ /\ ConfigLinearQuery =>
              UsesCurrent({"LLM_PROVIDER", "LLM_MODEL", "LLM_SYSTEM_PROMPT_FOR_SQL",
                           "LLM_SYSTEM_PROMPT_FOR_REPLY", "TOP_K"})
        /\ (ConfigToolsQuery(NoCustomPrompt) /\ ~config.tools.prompt_given) =>
              UsesCurrent({"LLM_PROVIDER", "LLM_MODEL", "LLM_SYSTEM_PROMPT_WITH_TOOLS"})
      ]_vars
\* what does hold: the linear engine reads its two prompts and TOP_K at call
\* time; provider and model (both engines) and the agent's system prompt are
\* the values read when the engine was built
C15_OnlyLinearPromptsAtCallTime ==
    [][ /\ ConfigLinearQuery =>
              /\ UsesCurrent({"LLM_SYSTEM_PROMPT_FOR_SQL", "LLM_SYSTEM_PROMPT_FOR_REPLY", "TOP_K"})
              /\ config'.used.LLM_PROVIDER = config.linear.llm.model_provider
              /\ config'.used.LLM_MODEL = config.linear.llm.model
        /\ ConfigToolsQuery(NoCustomPrompt) =>
              /\ config'.used.LLM_PROVIDER = config.tools.llm.model_provider
              /\ config'.used.LLM_MODEL = config.tools.llm.model
              /\ config'.used.LLM_SYSTEM_PROMPT_WITH_TOOLS = config.tools.system_prompt
      ]_vars

\* ------------------------------------------------------------ agent claims

LastMessage(msgs) == msgs[Len(msgs)]
RequestsTool(m) == m.type = "ai" /\ m.tool_calls > 0

\* C16: after every chatbot step control goes to the tools node if and only
\* if the latest assistant message requests the tool, every tools step hands
\* control back to the chatbot, and when the loop has stopped the last message
\* of the list returned is an assistant message that requests no tool.
C16_AgentLoopRouting ==
    /\ [][ /\ \A o \in ChatbotOutcomes :
                (~o.raises /\ AgentChatbot(o)) =>
                    /\ LastMessage(agent'.messages) = AIMessage(o.tool_calls)
                    /\ agent'.pc = "tools" <=> RequestsTool(LastMessage(agent'.messages))
                    /\ agent'.pc \in {"tools", "END"}
           /\ agent.pc = "tools" => agent'.pc = "chatbot"
         ]_vars
    /\ []( (agent.pc = "END" /\ ~agent.raised) =>
              /\ agent.result = agent.messages
              /\ LastMessage(agent.result).type = "ai"
              /\ ~RequestsTool(LastMessage(agent.result)) )
C16_Witness ==
    /\ agent.pc = "END"
    /\ ~agent.raised
    /\ agent.turns = 3
    /\ \E i \in 1..Len(agent.result) : agent.result[i].status = "error text"

\* ------------------------------------------------------------ storage claims

\* the rows request r has written so far
WroteSession(r) == reqs[r].created_new /\ reqs[r].session # NoSid
WroteMessages(r) == {reqs[r].user_message, reqs[r].assistant_message} \ {0}
EndsInServerError(r) ==
    reqs[r].pc # "done" /\ reqs'[r].pc = "done" /\ reqs'[r].status >= 500

\* C18: when a process-message request ends with a server error, none of its
\* writes remain: the session it created and the messages it stored are not
\* in the tables afterwards.
C18_ServerErrorRollsBack ==
    [][ \A r \in Reqs :
          EndsInServerError(r) =>
              /\ WroteSession(r) => reqs[r].session \notin DOMAIN sessions'
              /\ \A i \in 1..Len(messages') : messages'[i].id \notin WroteMessages(r)
      ]_vars

\* C20: a session's updated timestamp is never older than the latest save of
\* one of its messages or change of its title.
C20_UpdatedAtFollowsWrites ==
    \A s \in DOMAIN sessions : sessions[s].stale = 0
\* what does hold: the timestamp lags by at most the one title write of
\* process-message, and only on a session that still carries that title
C20_OnlyAutoTitleLags ==
    \A s \in DOMAIN sessions :
        /\ sessions[s].stale \in {0, 1}
        /\ sessions[s].stale = 1 =>
              sessions[s].title \in {generate_chat_title(m) : m \in ProcessTexts}

\* ------------------------------------------------------------ concurrency claims

\* the rows of the two racing requests, told apart by their contents
RaceUser(r) == RaceBody(r).message
RaceAssistant(r) == process_with_llm_and_history(RaceUser(r), << >>, RaceRun(r)).answer
RowsOf(type, content) ==
    {i \in 1..Len(messages) : messages[i].message_type = type /\ messages[i].content = content}
RaceOrder ==
    [i \in 1..Len(messages) |->
        CHOOSE tag \in {"user1", "user2", "assistant1", "assistant2"} :
            \E r \in Reqs :
                \/ tag = (IF r = 1 THEN "user1" ELSE "user2")
                      /\ i \in RowsOf("user", RaceUser(r))
                \/ tag = (IF r = 1 THEN "assistant1" ELSE "assistant2")
                      /\ i \in RowsOf("assistant", RaceAssistant(r))]
BothAnswered == \A r \in Reqs : reqs[r].pc = "done" /\ reqs[r].status = 200

\* C19: two process-message requests running at once on one session: in every
\* interleaving each request's user message is stored before its own assistant
\* message, neither request ever waits for the other to store a message, and
\* when both have answered all four messages are stored (the orders user1,
\* user2, assistant1, assistant2 and user1, assistant1, user2, assistant2 are
\* both reached).
C19_RacingRequestsKeepOwnOrder ==
    /\ \A r \in Reqs :
          /\ Cardinality(RowsOf("user", RaceUser(r))) <= 1
          /\ Cardinality(RowsOf("assistant", RaceAssistant(r))) <= 1
          /\ \A a \in RowsOf("assistant", RaceAssistant(r)) :
                \E u \in RowsOf("user", RaceUser(r)) : u < a
    /\ \A r \in Reqs :
          /\ reqs[r].pc = "save_user" => ENABLED ProcessSaveUser(r, "ok")
          /\ reqs[r].pc = "save_assistant" => ENABLED ProcessSaveAssistant(r, "ok")
    /\ BothAnswered =>
          /\ Len(messages) = 4
          /\ \A i \in 1..4 : messages[i].session = RaceSid
          /\ \A r \in Reqs : RowsOf("user", RaceUser(r)) # {}
                          /\ RowsOf("assistant", RaceAssistant(r)) # {}
C19_Witness ==
    /\ BothAnswered
    /\ RaceOrder = <<"user1", "user2", "assistant1", "assistant2">>
C19_SequentialOrder ==
    /\ BothAnswered
    /\ RaceOrder = <<"user1", "assistant1", "user2", "assistant2">>

\* ------------------------------------------------------------ title claims

\* the user message stored by request r is the first message of its session
StoredFirstMessage(r) ==
    LET rows == SessionRows(reqs[r].session)
    IN  rows # << >> /\ rows[1].id = reqs[r].user_message

\* C21: when a process-message request whose message is the first one of a
\* session with an empty title finishes, the session carries the title
\* derived from that message, whether the request created the session or
\* the session came from create-session.
C21_EmptyTitleFilledFromFirstMessage ==
    [][ \A r \in Reqs :
          ( /\ reqs[r].session \in DOMAIN sessions
            /\ sessions[reqs[r].session].title = Empty
            /\ StoredFirstMessage(r)
            /\ ProcessTitle(r, "ok") ) =>
              sessions'[reqs[r].session].title = generate_chat_title(reqs[r].message)
      ]_vars
\* what does hold: the title is filled for the sessions process-message
\* created itself
C21_CreatedHereIsTitled ==
    [][ \A r \in Reqs :
          ( /\ reqs[r].session \in DOMAIN sessions
            /\ reqs[r].created_new
            /\ ProcessTitle(r, "ok") ) =>
              sessions'[reqs[r].session].title = generate_chat_title(reqs[r].message)
      ]_vars

\* ------------------------------------------------------ statement claims

\* C22: the execute_query stage leaves the session, message and catalog
\* tables as they were, for every statement write_query handed to it.
C22_ExecuteQueryReadOnly ==
    [][ EngExecuteQuery => UNCHANGED <<sessions, messages, catalog>> ]_vars
\* what does hold: the statements that only select leave the tables alone,
\* and so does a statement whose execution failed
C22_SelectsAreReadOnly ==
    [][ \A db \in EqOutcomes :
          ( /\ eng.pc = "execute_query"
            /\ eng.state.query \notin SqlWrites \/ db.raises
            /\ EngExecuteQuery
            /\ eng'.state.sql_result = execute_query(eng.state, db).update.sql_result )
          => UNCHANGED <<sessions, messages, catalog>> ]_vars

\* ------------------------------------------------------- agent loop claims

AgentRunning == agent.pc \in {"chatbot", "tools"}

\* C23: the query repeats chatbot and tools steps with no iteration cap: it
\* ends only after a response of the model that requests no tool (or when the
\* model call itself failed), whatever the number of tool rounds, and a run
\* in which every response requests the tool does not end.
C23_NoIterationCap ==
    agent.pc = "END" =>
        \/ agent.error = "model call failed"
        \/ /\ ~agent.raised
           /\ ~RequestsTool(LastMessage(agent.result))
\* what does hold: a response without a tool request ends the query at once
\* and is the last message returned, a response with a tool request does
\* not end it, and no query takes more than RECURSION_LIMIT steps; the
\* run that asks for the tool in every response ends in GraphRecursionError
C23_EndsWithinRecursionLimit ==
    /\ [][ \A o \in LoopOutcomes :
             (~o.raises /\ AgentChatbotStep(o)) =>
                 /\ o.tool_calls = 0 =>
                        /\ agent'.pc = "END"
                        /\ LastMessage(agent'.result) = AIMessage(0)
                 /\ o.tool_calls > 0 => agent'.pc = "tools"
         ]_vars
    /\ [](agent.steps <= RECURSION_LIMIT)
    /\ [](AgentRunning => ENABLED NextLoop)
    /\ []((agent.pc = "END" /\ agent.error = "GraphRecursionError") =>
              /\ agent.steps = RECURSION_LIMIT
              /\ RequestsTool(LastMessage(agent.messages)))
C23_CapReached ==
    agent.pc = "END" /\ agent.error = "GraphRecursionError"

\* ------------------------------------------------------ agent state claims

IsPrefix(s, t) == Len(s) <= Len(t) /\ SubSeq(t, 1, Len(s)) = s
HasSystemMessage(msgs) == \E i \in 1..Len(msgs) : msgs[i].type = "system"

\* C24: every chatbot or tools step keeps the message list as a prefix of
\* the new list and adds at least one message at its end; the list returned
\* starts with the caller's messages, unchanged; the system prompt is handed
\* to the model in front of the list at every call and is in no state's list.
C24_AppendOnlyMessages ==
    /\ [][ (AgentRunning /\ ~agent'.raised /\ agent'.pc # "idle") =>
              /\ IsPrefix(agent.messages, agent'.messages)
              /\ Len(agent'.messages) > Len(agent.messages)
         ]_vars
    /\ []( (agent.pc = "END" /\ ~agent.raised) =>
              /\ IsPrefix(agent.input, agent.result)
              /\ Len(agent.result) > Len(agent.input) )
    /\ []( ~HasSystemMessage(agent.messages) /\ ~HasSystemMessage(agent.result) )
    /\ []( agent.turns > 0 =>
              /\ agent.prompted[1] = SystemMessage
              /\ IsPrefix(Tail(agent.prompted), agent.messages)
              /\ IsPrefix(agent.input, Tail(agent.prompted)) )
C24_Witness ==
    /\ agent.pc = "END"
    /\ ~agent.raised
    /\ Len(agent.input) = 3
    /\ Len(agent.result) >= 7
    /\ agent.turns = 2

\* ----------------------------------------------------- seed failure claims

SeedFailed == seed.pc = "done" /\ seed.outcome # "ok"

\* C25: after a run that failed partway, with or without --clear, the
\* catalog is the one the run found when it started.
C25_FailedRunLeavesCatalogAsFound ==
    SeedFailed => catalog = seed.start
\* what does hold: a failed run without --clear leaves the catalog it found;
\* a failed run with --clear leaves what the deletes committed before the
\* failure have left of it, and none of the rows of the seeding
C25_OnlySeedingIsAtomic ==
    SeedFailed =>
        /\ ~seed.clear => catalog = seed.start
        /\ seed.clear =>
              /\ catalog.products \subseteq seed.start.products
              /\ catalog.categories \in {seed.start.categories, {}}
              /\ catalog.brands \in {seed.start.brands, {}}

\* ----------------------------------------------------- seed summary claims

\* the rows of a table that the run in its atomic block has created
CreatedInRun(table) == catalog[table] \ seed.snapshot[table]
StoredUnder(name) ==
    Cardinality({p \in catalog.products :
                    \E c \in catalog.categories : c.id = p.category /\ c.name = name})

\* C26: the summary of a run gives the number of categories and of brands
\* the run created, and a product count for each category; a run that
\* created no category and no brand reports zero for both.
C26_SummaryCountsCreated ==
    [][ SeedSummary =>
          /\ seed'.report.categories = Cardinality(CreatedInRun("categories"))
          /\ seed'.report.brands = Cardinality(CreatedInRun("brands"))
          /\ Len(seed'.report.per_category) = Len(categories_data)
      ]_vars
\* what the summary does give: the lengths of the lists of the categories
\* and brands the run found or created (3 and 11 in every run), the number
\* of products it created, and per category the number of products stored
C26_SummaryCountsLists ==
    [][ SeedSummary =>
          /\ seed'.report.categories = Len(categories_data)
          /\ seed'.report.brands = Len(brands_data)
          /\ seed'.report.products = Cardinality(CreatedInRun("products"))
          /\ \A i \in 1..Len(categories_data) :
                /\ seed'.report.per_category[i].name = categories_data[i].name
                /\ seed'.report.per_category[i].count = StoredUnder(categories_data[i].name)
      ]_vars

\* ---------------------------------------------------- extraction claims

RECURSIVE Without(_, _)
Without(msgs, S) ==
    IF msgs = << >> THEN << >>
    ELSE (IF msgs[1] \in S THEN << >> ELSE <<msgs[1]>>) \o Without(Tail(msgs), S)
OneMalformed(msgs) ==
    Cardinality({i \in 1..Len(msgs) : msgs[i] \in Malformed}) = 1
FirstMalformed(msgs) == CHOOSE i \in 1..Len(msgs) : msgs[i] \in Malformed
\* what the well-formed messages of a list carry
CarriedQueries(msgs) == extract_sql_queries([messages |-> Without(msgs, Malformed)])
CarriedContents(msgs, class) ==
    get_messages_by_type([messages |-> Without(msgs, Malformed)], class)
Classes == {"human", "ai", "system", "tool"}
ContentsOf(class) ==
    IF class = "human" THEN processed.human_messages
    ELSE IF class = "ai" THEN processed.ai_messages
    ELSE IF class = "system" THEN processed.system_messages
    ELSE processed.tool_messages
ProcessedList == processed.messages.messages
ProcessedOneMalformed ==
    /\ processed.pc = "processed"
    /\ processed.messages # << >>
    /\ OneMalformed(ProcessedList)

\* message i of the processed list is extracted: its queries are among the
\* queries and its content is among the contents of its class
Extracted(i) ==
    LET m == ProcessedList[i]
    IN  /\ Range(CarriedQueries(<<m>>)) \subseteq Range(processed.sql_queries)
        /\ m.content \in Range(ContentsOf(m.class))

\* C27: for a list with one malformed message, the queries and the contents
\* extracted hold everything the other messages carry, those after the
\* malformed message included.
C27_MalformedMessageIsSkipped ==
    ProcessedOneMalformed =>
        \A i \in 1..Len(ProcessedList) : ProcessedList[i] \notin Malformed => Extracted(i)
\* what does hold: nothing is raised, every message before the malformed
\* one is extracted, and what is extracted comes in the order of the list
C27_KeepsWhatCameBefore ==
    ProcessedOneMalformed =>
        LET before == SubSeq(ProcessedList, 1, FirstMalformed(ProcessedList) - 1)
        IN  /\ \A i \in 1..Len(before) : Extracted(i)
            /\ IsPrefix(CarriedQueries(before), processed.sql_queries)
            /\ \A class \in Classes :
                  IsPrefix(CarriedContents(before, class), ContentsOf(class))
C27_LaterMessagesLost ==
    /\ ProcessedOneMalformed
    /\ ProcessedList = <<AiBrokenCalls, AiRunsA>>
    /\ processed.sql_queries = <<QueryC>>

\* ------------------------------------------------------------ stage claims

WqFails(llm) == llm.raises \/ "query" \notin DOMAIN llm.out

\* C28: a write_query failure gives the query "SELECT 1;" and execute_query
\* runs that query; an execute_query failure gives the sql_result "Error
\* executing query: " followed by the error message; a generate_answer
\* failure gives the fixed apology; after a failure the next stage runs, and
\* a finished query has run each stage once, in the order write_query,
\* execute_query, generate_answer.
C28_StagesAbsorbFailures ==
    /\ [][ /\ \A llm \in WqOutcomes :
                (WqFails(llm) /\ EngStep("write_query", write_query(eng.state, llm))) =>
                    /\ eng'.state.query = FALLBACK_QUERY
                    /\ eng'.pc = "execute_query"
           /\ \A db \in EqOutcomes :
                EngExecuteQueryOn(db) =>
                    /\ eng'.ran = <<eng.state.query>>
                    /\ eng'.pc = "generate_answer"
                    /\ db.raises => eng'.state.sql_result = EXECUTE_ERROR_PREFIX \o db.err
           /\ \A llm \in GaOutcomes :
                (llm.raises /\ EngStep("generate_answer", generate_answer(eng.state, llm))) =>
                    /\ eng'.state.answer = ANSWER_APOLOGY
                    /\ eng'.pc = "return"
         ]_vars
    /\ []( ~eng.raised )
    /\ []( eng.pc = "done" => (eng.log = GraphNodes /\ Len(eng.ran) = 1) )
C28_Witness ==
    /\ eng.pc = "done"
    /\ eng.log = GraphNodes
    /\ eng.ran = <<FALLBACK_QUERY>>
    /\ eng.state.query = FALLBACK_QUERY
    /\ eng.state.sql_result = EXECUTE_ERROR_PREFIX \o <<"n","o"," ","s","u","c","h"," ","t","a","b","l","e",":"," ","p","r","o","d","u","c","t","s">>
    /\ eng.state.answer = ANSWER_APOLOGY

\* -------------------------------------------------------- not-found claims

\* request r has resolved its session and has not answered yet
Resolved(r) == reqs[r].pc \in {"history", "save_user", "llm", "save_assistant", "title"}
AnswersNow(r) == reqs[r].pc # "done" /\ reqs'[r].pc = "done"

\* C29: a process-message request that fails after its session was resolved
\* is never answered not-found, whatever error was raised; not-found is the
\* answer only when the chat identifier resolves to no session of the caller.
C29_NotFoundOnlyFromResolution ==
    [][ \A r \in Reqs :
          AnswersNow(r) =>
              /\ Resolved(r) => reqs'[r].status # 404
              /\ reqs'[r].status = 404 =>
                    /\ reqs[r].pc = "resolve"
                    /\ ~Owned(reqs[r].chat_id, reqs[r].user)
      ]_vars
\* what does hold: an unresolved chat identifier is answered 404, and after
\* the resolution the database errors are answered 500; 404 is then the
\* answer to the errors that are ValueErrors
C29_NotFoundForEveryValueError ==
    [][ \A r \in Reqs :
          AnswersNow(r) =>
              /\ (reqs[r].pc = "resolve") => reqs'[r].status = 404
              /\ Resolved(r) => reqs'[r].status \in {200, 404, 500}
              /\ (Resolved(r) /\ reqs'[r].status = 404) =>
                    /\ reqs[r].pc = "save_assistant"
                    /\ reqs'[r].body = [error |-> <<UNICODE_ERROR>>]
      ]_vars

\* --------------------------------------------------------- history claims

\* the history entries of stored rows
AsHistory(rows) ==
    [i \in 1..Len(rows) |->
        [role |-> IF rows[i].message_type = "user" THEN <<"H","u","m","a","n">> ELSE <<"A","s","s","i","s","t","a","n","t">>,
         content |-> rows[i].content]]

\* C30: with no other writer, the history read by a request is taken before
\* its own user message is stored and holds exactly the rows the session had
\* before the request; when the engine is called the request's message is
\* the last row of the session and is in the engine input as the current
\* question only, after the lines of the earlier rows.
C30_HistoryIsEarlierSnapshot ==
    [][ \A r \in Reqs :
          /\ ProcessHistory(r) =>
                /\ reqs[r].user_message = 0
                /\ reqs'[r].history = AsHistory(SessionRows(reqs[r].session))
          /\ \A o \in ApiRuns :
                ProcessLLM(r, o) =>
                    LET rows == SessionRows(reqs[r].session)
                        prior == SubSeq(rows, 1, Len(rows) - 1)
                    IN  /\ rows # << >>
                        /\ rows[Len(rows)].id = reqs[r].user_message
                        /\ rows[Len(rows)].content = reqs[r].message
                        /\ \A i \in 1..Len(prior) : prior[i].id < reqs[r].user_message
                        /\ reqs[r].history = AsHistory(prior)
                        /\ reqs'[r].input = ExpectedInput(prior, reqs[r].message)
      ]_vars
C30_Witness ==
    \E r \in Reqs :
        /\ reqs[r].pc = "save_assistant"
        /\ Len(reqs[r].history) = 2
        /\ reqs[r].history[1].content = reqs[r].message
        /\ reqs[r].input = ExpectedInput(SubSeq(SessionRows(reqs[r].session), 1, 2),
                                         reqs[r].message)
====
